---- MODULE Spec2Model ----
(***************************************************************************)
(* Model of the session coordination layer of the video-meeting server     *)
(* (server/main.go): the Hub that owns the connection registry and the      *)
(* per-meeting rooms, its three request channels, the room broadcast, and   *)
(* the websocket handler; and the HTTP handlers that create meetings and   *)
(* store and update Participant documents (db.Meetings, db.Participants),  *)
(* with the indexes server/db/mongodb.go declares on them.                 *)
(*                                                                          *)
(* A Go channel send on a closed channel and a close of a closed channel    *)
(* panic; nothing in Hub.run recovers, so a panic ends the worker.  The     *)
(* model records it in `panicked`, after which no Hub action is enabled.    *)
(* Timestamps (time.Now()) carried by the events are left out.              *)
(***************************************************************************)
EXTENDS Naturals, Integers, Sequences, FiniteSets, TLC

(* ------------------------------ bounds --------------------------------- *)
\* capacity of a Client.send channel (the source never constructs a Client)
QueueCap == 2
\* number of frames the websocket handlers may echo in one behaviour
MaxFrames == 2
\* number of requests the Hub worker and the writer tasks serve in one behaviour
MaxOps == 7
\* number of requests the HTTP handlers serve in one behaviour
MaxApiOps == 4
\* the clock advances in steps of half a day, this many times
ClockStep == 43200
MaxTicks == 2
\* number of senders that may be blocked on the Hub's channels at a time
MaxPending == 2
\* requests one client has had served, one after the other, in the current
\* window when the concurrent requests of RateSpec begin
RateServedBefore == 98
\* number of further requests that enter the rate limiter
MaxRequests == 4
\* number of reconnect timers the MeetingService may schedule in one behaviour
MaxTimers == 6
\* number of requests given to the RequestQueue in one behaviour
MaxAdds == 7
\* number of steps of a behaviour of MediaSpec
MaxMediaOps == 8
\* number of payloads the reader task of a connection submits for broadcast
MaxSends == 2
\* number of requests the api functions give to the RequestQueue in one
\* behaviour of ApiAuthSpec: fewer than the queue runs at a time, so that
\* each is started by the add that queued it
MaxApiCalls == 4

(* --------------------------- the connections ---------------------------- *)
Conns == {"c1", "c2", "c3", "c4"}
MeetingIDs == {"m1", "m2"}
Nil == "nil"

\* Client.meetingID, Client.userID, Client.peerID: fixed at construction
MeetingOf(c) == IF c = "c4" THEN "m2" ELSE "m1"
UserOf(c) == CASE c = "c1" -> "u1" [] c = "c2" -> "u2" [] c = "c3" -> "u3" [] OTHER -> "u4"
PeerOf(c) == CASE c = "c1" -> "p1" [] c = "c2" -> "p2" [] c = "c3" -> "p3" [] OTHER -> "p4"
PeerIDs == {PeerOf(c) : c \in Conns} \cup {"p9"}

\* payloads that may be submitted on Hub.broadcast
RawMsgs == {"b1"}

(* ------------------------------ messages -------------------------------- *)
\* json.Marshal(WebSocketMessage{...}) without the timestamp
WebSocketMessage(type, c) ==
    [type |-> type, userId |-> UserOf(c), peerId |-> PeerOf(c),
     meetingId |-> MeetingOf(c), payload |-> ""]
Joined(c) == WebSocketMessage("user-joined", c)
Left(c) == WebSocketMessage("user-left", c)
Raw(b) == [type |-> "bytes", userId |-> "", peerId |-> "", meetingId |-> "", payload |-> b]

\* a frame read from a websocket connection that parses as SignalingData
SignalingData(type, from, to) == [type |-> type, fromPeerId |-> from, toPeerId |-> to]
SignalTypes == {"offer", "answer", "ice-candidate"}

\* var allowedOrigins (the list is longer; one allowed origin stands for all)
allowedOrigins == {"http://localhost:5173", "http://localhost:3000"}
Origins == {"http://localhost:5173", "http://evil.example"}

\* func isAllowedOrigin(origin string) bool
isAllowedOrigin(origin) == origin \in allowedOrigins

VARIABLES
    clients,      \* Hub.clients: the set of registered connections
    meetings,     \* Hub.meetings: meeting id -> set of connections (partial map)
    send,         \* Client.send of every connection: buffered channel contents
    closed,       \* whether Client.send has been closed
    panicked,     \* the Hub worker died of a run-time panic
    lastOp,       \* the request the Hub (or a handler) processed last
    ops,          \* how many requests have been served
    unregistered, \* connections removed by the unregister case
    evicted,      \* connections removed by a broadcast (queue full)
    leftCount,    \* leftCount[p][d]: user-left events of peer p enqueued on d
    joining,      \* connections blocked in `hub.register <- c`
    joinOrder,    \* the order in which the joins of `joining` were processed
    pending,      \* requests whose senders are blocked on a Hub channel, oldest first
    wsOpen,       \* websocket connections being served by websocketHandler
    wsOut,        \* frames websocketHandler wrote to each connection
    participants, \* db.Participants: the set of stored Participant documents
    dbMeetings,   \* db.Meetings: meeting id -> stored Meeting document
    now,          \* time.Now(), in seconds
    inserted,     \* number of Participant documents inserted so far
    httpReq,      \* the HTTP request handled last
    httpResp,     \* the response written to it
    requestCounts, \* var requestCounts: client IP -> requests counted in the window
    lastReset,    \* var lastReset: when the counts were reset last
    rl,           \* the request tasks inside rateLimitMiddleware: position and locals
    admitted,     \* requests of each IP passed on to next.ServeHTTP since the reset
    started,      \* requests that have entered rateLimitMiddleware
    crashed,      \* the process died of a fatal run-time error
    ms,           \* the client's MeetingService: peer, reconnect counter and timers
    rq,           \* the client's RequestQueue and the requests given to it
    auth,         \* the client's auth store
    localStorage, \* the item 'auth-token' of the browser's localStorage
    logouts,      \* the requests of the calls of api.logout that await their answer
    reader,       \* how many requests the reader task of each connection has submitted
    written       \* the messages the writer task of each connection took off its queue

hubVars == <<clients, meetings, send, closed, panicked, unregistered, evicted, leftCount>>
joinVars == <<joining, joinOrder, pending>>
wsVars == <<wsOpen, wsOut>>
apiVars == <<participants, dbMeetings, now, inserted, httpReq, httpResp>>
rateVars == <<requestCounts, lastReset, rl, admitted, started, crashed>>
clientVars == <<ms, rq, auth, localStorage, logouts>>
taskVars == <<reader, written>>
otherVars == <<rateVars, clientVars, taskVars>>
vars == <<clients, meetings, send, closed, panicked, lastOp, ops, unregistered,
          evicted, leftCount, joining, joinOrder, pending, wsOpen, wsOut, participants,
          dbMeetings, now, inserted, httpReq, httpResp, requestCounts, lastReset,
          rl, admitted, started, crashed, ms, rq, auth, localStorage, logouts, reader,
          written>>

\* the Hub state as one value, for the operators below
HubState == [clients |-> clients, meetings |-> meetings, send |-> send,
             closed |-> closed, panicked |-> panicked,
             unregistered |-> unregistered, evicted |-> evicted,
             leftCount |-> leftCount]

SetHub(h) ==
    /\ clients' = h.clients
    /\ meetings' = h.meetings
    /\ send' = h.send
    /\ closed' = h.closed
    /\ panicked' = h.panicked
    /\ unregistered' = h.unregistered
    /\ evicted' = h.evicted
    /\ leftCount' = h.leftCount

Op(op, c, ok) == [op |-> op, c |-> c, ok |-> ok]

\* one more request served, within the bound of the model
Served ==
    /\ ops < MaxOps
    /\ ops' = ops + 1

\* h.meetings[m] of a Go map: the nil (empty) map when the key is absent
RoomOf(h, m) == IF m \in DOMAIN h.meetings THEN h.meetings[m] ELSE {}

\* h.meetings[m] = s
PutRoom(h, m, s) == [k \in DOMAIN h.meetings \cup {m} |-> IF k = m THEN s ELSE h.meetings[k]]

\* delete(h.meetings, m)
DeleteRoom(h, m) == [k \in DOMAIN h.meetings \ {m} |-> h.meetings[k]]

(* ------------------------- Hub.broadcastToMeeting ----------------------- *)
\* case client.send <- messageBytes: on a channel with free space
SendToMember(q, msg) == Append(q, msg)

\* The body of the loop for the members ds of room m, none of whose queues
\* is closed: a non-blocking send, and in the default branch the eviction.
DeliverToMeeting(h, m, msg, ds) ==
    LET full == {d \in ds : Len(h.send[d]) >= QueueCap}
    IN [h EXCEPT
          !.send = [d \in Conns |-> IF d \in ds \ full THEN SendToMember(h.send[d], msg)
                                                        ELSE h.send[d]],
          !.closed = [d \in Conns |-> h.closed[d] \/ d \in full],
          !.clients = h.clients \ full,
          !.meetings = [h.meetings EXCEPT ![m] = @ \ full],
          !.evicted = h.evicted \cup full,
          !.leftCount = [p \in PeerIDs |-> [d \in Conns |->
                            IF msg.type = "user-left" /\ msg.peerId = p /\ d \in ds \ full
                            THEN h.leftCount[p][d] + 1 ELSE h.leftCount[p][d]]]]

\* a faulty loop: the excluded client is served like every other member
TargetsAll(room, excludeClient) == room

\* for client := range clients { if excludeClient != nil && client == excludeClient { continue } ...
Targets(room, excludeClient) == room \ {excludeClient}

\* The states broadcastToMeeting can leave.  Map iteration order is
\* unspecified: when a member's queue is closed the send panics, after the
\* loop has served some of the other members.  (json.Marshal cannot fail on
\* the two messages Hub.run builds, so the early return is never taken.)
broadcastToMeeting(h, m, msg, excludeClient) ==
    IF m \notin DOMAIN h.meetings THEN {h}
    ELSE LET targets == Targets(h.meetings[m], excludeClient)
             dead == {d \in targets : h.closed[d]}
         IN IF dead = {}
            THEN {DeliverToMeeting(h, m, msg, targets)}
            ELSE {[DeliverToMeeting(h, m, msg, done) EXCEPT !.panicked = TRUE] :
                     done \in SUBSET (targets \ dead)}

(* ------------------------------- Hub.run -------------------------------- *)
\* a faulty guard: every unregister request is taken for a registered client
RegisteredAlways(h, c) == TRUE

\* _, ok := h.clients[client]
Registered(h, c) == c \in h.clients

\* a faulty check: the room map is made anew on every register
EnsureRoomAlways(h, m) == PutRoom(h, m, {})

\* if h.meetings[client.meetingID] == nil { h.meetings[client.meetingID] = make(map[*Client]bool) }
EnsureRoom(h, m) == IF RoomOf(h, m) = {} THEN PutRoom(h, m, {}) ELSE h.meetings

\* case client := <-h.register
Register(c) ==
    /\ ~panicked
    /\ LET h1 == [HubState EXCEPT
                    !.clients = clients \cup {c},
                    !.meetings = [EnsureRoom(HubState, MeetingOf(c))
                                     EXCEPT ![MeetingOf(c)] = @ \cup {c}]]
       IN \E h2 \in broadcastToMeeting(h1, MeetingOf(c), Joined(c), c) : SetHub(h2)
    /\ lastOp' = Op("register", c, c \notin clients)

\* case client := <-h.unregister
Unregister(c) ==
    /\ ~panicked
    /\ lastOp' = Op("unregister", c, c \in clients)
    /\ IF ~Registered(HubState, c)
       THEN UNCHANGED hubVars
       ELSE LET m == MeetingOf(c)
                h1 == [HubState EXCEPT
                         !.clients = clients \ {c},
                         !.meetings = IF m \in DOMAIN meetings
                                      THEN [meetings EXCEPT ![m] = @ \ {c}]
                                      ELSE meetings]
            IN IF closed[c]
               THEN \* close of a closed channel
                    SetHub([h1 EXCEPT !.panicked = TRUE])
               ELSE LET h2 == [h1 EXCEPT !.closed[c] = TRUE,
                                         !.unregistered = @ \cup {c}]
                    IN IF RoomOf(h2, m) = {}
                       THEN SetHub([h2 EXCEPT !.meetings = DeleteRoom(h2, m)])
                       ELSE \E h3 \in broadcastToMeeting(h2, m, Left(c), Nil) : SetHub(h3)

\* a faulty send: the message is put on the queue a second time
SendToClientTwice(q, msg) == Append(Append(q, msg), msg)

\* case client.send <- message: on a channel with free space
SendToClient(q, msg) == Append(q, msg)

\* The loop of the broadcast case for the clients ds, none closed.
DeliverToAll(h, msg, ds) ==
    LET full == {d \in ds : Len(h.send[d]) >= QueueCap}
    IN [h EXCEPT
          !.send = [d \in Conns |-> IF d \in ds \ full THEN SendToClient(h.send[d], msg)
                                                        ELSE h.send[d]],
          !.closed = [d \in Conns |-> h.closed[d] \/ d \in full],
          !.clients = h.clients \ full,
          !.evicted = h.evicted \cup full]

\* case message := <-h.broadcast
Broadcast(b) ==
    /\ ~panicked
    /\ lastOp' = Op("broadcast", Nil, TRUE)
    /\ LET dead == {d \in clients : closed[d]}
       IN IF dead = {}
          THEN SetHub(DeliverToAll(HubState, Raw(b), clients))
          ELSE \E done \in SUBSET (clients \ dead) :
                  SetHub([DeliverToAll(HubState, Raw(b), done) EXCEPT !.panicked = TRUE])

\* The writer task of a connection takes the next message off Client.send.
WriterDequeue(c) ==
    /\ send[c] # <<>>
    /\ send' = [send EXCEPT ![c] = Tail(@)]
    /\ lastOp' = Op("dequeue", c, TRUE)
    /\ UNCHANGED <<clients, meetings, closed, panicked, unregistered, evicted, leftCount>>

(* ------------------------------ HTTP API -------------------------------- *)
\* The session cookie of a request: absent, or a value.  A value is written
\* as the list of its pieces, <<"token_", "u1">> for "token_u1"; values of
\* at most two pieces are used.
NoCookie == [present |-> FALSE, value |-> <<>>]
Cookie(v) == [present |-> TRUE, value |-> v]
Cookies == {NoCookie, Cookie(<<"token_", "u1">>), Cookie(<<"token_", "u2">>), Cookie(<<"u1">>)}
Users == {"u1", "u2"}

\* strings.HasPrefix(token, p)
HasPrefix(v, p) == Len(v) >= 1 /\ v[1] = p
\* strings.TrimPrefix(token, p), for a token of at most two pieces
TrimPrefix(v, p) == IF HasPrefix(v, p) THEN (IF Len(v) >= 2 THEN v[2] ELSE "") ELSE v[1]

\* func getUserIDFromToken(r *http.Request) string
getUserIDFromToken(cookie) ==
    IF ~cookie.present THEN ""
    ELSE IF HasPrefix(cookie.value, "token_") THEN TrimPrefix(cookie.value, "token_")
    ELSE ""

\* the request as the properties see it: its cookie, the {id} of its path and
\* its body
Request(cookie, id, body) == [cookie |-> cookie, id |-> id, body |-> body]
\* sendErrorResponse(w, message, code) / sendSuccessResponse(w, data)
Response(code, message) == [code |-> code, error |-> message]
StatusOK == "StatusOK"
StatusBadRequest == "StatusBadRequest"
StatusUnauthorized == "StatusUnauthorized"
StatusInternalServerError == "StatusInternalServerError"
StatusForbidden == "StatusForbidden"

\* a request body: not JSON, or a JSON object with the fields it carries
BadBody == [json |-> FALSE, fields |-> <<>>]
Body(f) == [json |-> TRUE, fields |-> f]
\* json.Decode into a struct: a field the object lacks keeps its zero value
Field(body, name, zero) == IF name \in DOMAIN body.fields THEN body.fields[name] ELSE zero

\* createMeetingHandler: the maxParticipants values a request may carry
MaxParticipantsInputs == {0, 1, 101}
DefaultMaxParticipants == 50
MaxParticipantsCap == 100
\* the default and the cap of createMeetingHandler
NormalizeMaxParticipants(n) ==
    IF n <= 0 THEN DefaultMaxParticipants
    ELSE IF n > MaxParticipantsCap THEN MaxParticipantsCap
    ELSE n

\* strings.TrimSpace on the titles used
Titles == {" ", "standup"}
TrimSpace(t) == IF t = " " THEN "" ELSE t

\* type Meeting struct, the fields the handlers read
Meeting(id, title, createdBy, isPrivate, maxParticipants) ==
    [id |-> id, title |-> title, createdBy |-> createdBy, isPrivate |-> isPrivate,
     isActive |-> TRUE, maxParticipants |-> maxParticipants]

MeetingBodies ==
    {BadBody} \cup
    {Body([title |-> t, isPrivate |-> p, maxParticipants |-> n]) :
        t \in Titles, p \in BOOLEAN, n \in MaxParticipantsInputs}

\* db.Meetings.InsertOne(ctx, meeting)
InsertMeeting(coll, doc) ==
    [k \in DOMAIN coll \cup {doc.id} |-> IF k = doc.id THEN doc ELSE coll[k]]

\* func createMeetingHandler; uuid.New() yields an id no meeting has
createMeetingHandler(cookie, body, id) ==
    /\ id \notin DOMAIN dbMeetings
    /\ lastOp' = Op("create-meeting", Nil, TRUE)
    /\ httpReq' = Request(cookie, Nil, body)
    /\ LET userID == getUserIDFromToken(cookie)
       IN IF userID = ""
          THEN /\ httpResp' = Response(StatusUnauthorized, "Unauthorized")
               /\ UNCHANGED dbMeetings
          ELSE IF ~body.json
          THEN /\ httpResp' = Response(StatusBadRequest, "Invalid request body")
               /\ UNCHANGED dbMeetings
          ELSE IF TrimSpace(Field(body, "title", "")) = ""
          THEN /\ httpResp' = Response(StatusBadRequest, "Meeting title is required")
               /\ UNCHANGED dbMeetings
          ELSE /\ dbMeetings' = InsertMeeting(dbMeetings,
                                  Meeting(id, TrimSpace(Field(body, "title", "")), userID,
                                          Field(body, "isPrivate", FALSE),
                                          NormalizeMaxParticipants(Field(body, "maxParticipants", 0))))
               /\ httpResp' = Response(StatusOK, "")
    /\ UNCHANGED <<hubVars, participants, now, inserted>>

\* type Participant struct as notifyJoinHandler builds it: the flags it does
\* not set keep the zero value
Participant(id, meetingID, userID, userName, peerID, t) ==
    [id |-> id, meetingId |-> meetingID, userId |-> userID, userName |-> userName,
     peerId |-> peerID, isHost |-> FALSE, isAudioEnabled |-> FALSE,
     isVideoEnabled |-> FALSE, isScreenSharing |-> FALSE, joinedAt |-> t, lastActive |-> t]

JoinBodies == {BadBody, Body([userName |-> "ann", peerId |-> "p1"])}

\* the documents of the collection with this meetingId and userId
FindParticipants(coll, meetingID, userID) ==
    {p \in coll : p.meetingId = meetingID /\ p.userId = userID}

\* a collection without the unique index: every insert is accepted
InsertNeverFails(coll, doc) == FALSE

\* db.Participants.InsertOne: the unique index on (meetingId, userId) that
\* db.ConnectDB creates rejects a second document of the same pair
InsertFails(coll, doc) == FindParticipants(coll, doc.meetingId, doc.userId) # {}

\* func notifyJoinHandler
notifyJoinHandler(cookie, meetingID, body) ==
    /\ lastOp' = Op("notify-join", Nil, TRUE)
    /\ httpReq' = Request(cookie, meetingID, body)
    /\ LET userID == getUserIDFromToken(cookie)
           participant == Participant(inserted + 1, meetingID, userID,
                                      Field(body, "userName", ""),
                                      Field(body, "peerId", ""), now)
       IN IF userID = ""
          THEN /\ httpResp' = Response(StatusUnauthorized, "Unauthorized")
               /\ UNCHANGED <<participants, inserted>>
          ELSE IF ~body.json
          THEN /\ httpResp' = Response(StatusBadRequest, "Invalid request body")
               /\ UNCHANGED <<participants, inserted>>
          ELSE IF InsertFails(participants, participant)
          THEN /\ httpResp' = Response(StatusInternalServerError, "Failed to join meeting")
               /\ UNCHANGED <<participants, inserted>>
          ELSE /\ participants' = participants \cup {participant}
               /\ inserted' = inserted + 1
               /\ httpResp' = Response(StatusOK, "")
    /\ UNCHANGED <<hubVars, dbMeetings, now>>

UpdateBodies ==
    {BadBody,
     Body([isAudioEnabled |-> TRUE]),
     Body([isAudioEnabled |-> TRUE, isVideoEnabled |-> TRUE, isScreenSharing |-> TRUE]),
     Body([isAudioEnabled |-> FALSE, isVideoEnabled |-> TRUE, isScreenSharing |-> TRUE])}

\* db.Participants.UpdateOne(ctx, filter, {"$set": ...}): the matching
\* document, if there is one, gets the four fields
UpdateOne(coll, meetingID, userID, body, t) ==
    {IF p \in FindParticipants(coll, meetingID, userID)
     THEN [p EXCEPT !.isAudioEnabled = Field(body, "isAudioEnabled", FALSE),
                    !.isVideoEnabled = Field(body, "isVideoEnabled", FALSE),
                    !.isScreenSharing = Field(body, "isScreenSharing", FALSE),
                    !.lastActive = t]
     ELSE p : p \in coll}

\* func updateParticipantHandler
updateParticipantHandler(cookie, meetingID, body) ==
    /\ lastOp' = Op("update-participant", Nil, TRUE)
    /\ httpReq' = Request(cookie, meetingID, body)
    /\ LET userID == getUserIDFromToken(cookie)
       IN IF userID = ""
          THEN /\ httpResp' = Response(StatusUnauthorized, "Unauthorized")
               /\ UNCHANGED participants
          ELSE IF ~body.json
          THEN /\ httpResp' = Response(StatusBadRequest, "Invalid request body")
               /\ UNCHANGED participants
          ELSE /\ participants' = UpdateOne(participants, meetingID, userID, body, now)
               /\ httpResp' = Response(StatusOK, "")
    /\ UNCHANGED <<hubVars, dbMeetings, now, inserted>>

\* SetExpireAfterSeconds(86400) of the index on lastActive
ExpireAfterSeconds == 86400

\* The TTL index: the database deletes a Participant document once its
\* lastActive lies ExpireAfterSeconds or more in the past.
TTLExpire(p) ==
    /\ p \in participants
    /\ now >= p.lastActive + ExpireAfterSeconds
    /\ participants' = participants \ {p}
    /\ lastOp' = Op("ttl-expire", Nil, TRUE)
    /\ UNCHANGED <<hubVars, dbMeetings, now, inserted, httpReq, httpResp>>

\* time passes
Tick ==
    /\ now < MaxTicks * ClockStep
    /\ now' = now + ClockStep
    /\ lastOp' = Op("tick", Nil, TRUE)
    /\ UNCHANGED <<hubVars, participants, dbMeetings, inserted, httpReq, httpResp>>

(* ------------------------ RequestQueue (client, api.ts) ----------------- *)
\* private maxConcurrent = 5
maxConcurrent == 5

\* A new RequestQueue, with the requests given to it so far: queue holds the
\* waiting requests, active is the counter of the class, running the requests
\* whose promise is pending, startOrder the requests in the order they were
\* started, failed the requests whose promise was rejected.
RequestQueue ==
    [queue |-> <<>>, active |-> 0, running |-> {}, startOrder |-> <<>>,
     added |-> 0, failed |-> {}]

\* a faulty queue.shift(): takes the request added last
pop(q) == [request |-> q[Len(q)], queue |-> SubSeq(q, 1, Len(q) - 1)]

\* this.queue.shift()
shift(q) == [request |-> Head(q), queue |-> Tail(q)]

\* a faulty test: the number of running requests is not limited
HasSlotAlways(r) == TRUE

\* this.active < this.maxConcurrent
HasSlot(r) == r.active < maxConcurrent

\* private processNext(): void.  Calling the queued function runs it up to
\* its await: this.active++ and the start of the request.
processNext(r) ==
    IF HasSlot(r) /\ Len(r.queue) > 0
    THEN LET s == shift(r.queue)
         IN [r EXCEPT !.queue = s.queue,
                      !.active = @ + 1,
                      !.running = @ \cup {s.request},
                      !.startOrder = Append(@, s.request)]
    ELSE r

\* async add<T>(request): this.queue.push(...); this.processNext().  The
\* request gets the next number.
add(r) ==
    processNext([r EXCEPT !.added = @ + 1, !.queue = Append(@, r.added + 1)])

\* the promise of running request id settles: resolve(result) or
\* reject(error), then finally { this.active--; this.processNext() }
settle(r, id, ok) ==
    processNext([r EXCEPT !.running = @ \ {id},
                          !.active = @ - 1,
                          !.failed = IF ok THEN @ ELSE @ \cup {id}])

\* a request is given to the queue
RqAdd ==
    /\ rq.added < MaxAdds
    /\ rq' = add(rq)
    /\ lastOp' = Op("rq-add", Nil, TRUE)

\* a running request resolves or rejects
RqSettle(id, ok) ==
    /\ id \in rq.running
    /\ rq' = settle(rq, id, ok)
    /\ lastOp' = Op("rq-settle", Nil, ok)

(* -------------------------- auth store (client) ------------------------- *)
\* JavaScript values: null, and a string as the list of its characters
null == [null |-> TRUE]
undefined == [undefined |-> TRUE]
Str(chars) == [chars |-> chars]
TokenPrefix == <<"t", "o", "k", "e", "n", "_">>

\* the initial state of the store
AuthState ==
    [user |-> null, isAuthenticated |-> FALSE, token |-> null,
     isLoading |-> FALSE, error |-> Nil]

\* set(partial): the fields of partial replace those of the state
set(a, partial) == [f \in DOMAIN a |-> IF f \in DOMAIN partial THEN partial[f] ELSE a[f]]

\* !value of a string or null
Falsy(v) == v = null \/ v.chars = <<>>

\* token.startsWith(p)
startsWith(t, p) == Len(t.chars) >= Len(p) /\ SubSeq(t.chars, 1, Len(p)) = p

\* a faulty validation: every token passes
isValidTokenAlways(t) == TRUE

\* const isValidToken = (token: string): boolean
isValidToken(t) == startsWith(t, TokenPrefix) /\ Len(t.chars) > 6

\* the arguments login is called with
AuthUsers ==
    {null} \cup [id : {Str(<<>>), Str(<<"u", "1">>), Str(<<"u", "2">>)},
                 name : {Str(<<>>), Str(<<"A">>), Str(<<"B">>)},
                 email : {Str(<<>>), Str(<<"a", "@", "b">>), Str(<<"b", "@", "b">>)}]
AuthTokens ==
    {null, Str(<<>>), Str(TokenPrefix), Str(TokenPrefix \o <<"u", "1">>),
     Str(TokenPrefix \o <<"u", "2">>), Str(<<"t", "o", "k", "e", "n", "-", "u", "1">>),
     Str(<<"u", "1">>)}

\* the error login throws for its arguments, Nil when it throws none
LoginError(user, token) ==
    IF user = null \/ Falsy(token) THEN "Invalid login data"
    ELSE IF Falsy(user.id) \/ Falsy(user.name) \/ Falsy(user.email) THEN "Invalid user data"
    ELSE IF ~isValidToken(token) THEN "Invalid token format"
    ELSE Nil

\* login: async (user, token) => {...}
login(a, user, token) ==
    LET a1 == set(a, [isLoading |-> TRUE, error |-> Nil])
    IN IF LoginError(user, token) = Nil
       THEN set(a1, [user |-> user, isAuthenticated |-> TRUE, token |-> token, isLoading |-> FALSE])
       ELSE set(a1, [error |-> LoginError(user, token), isLoading |-> FALSE])

\* logout: () => {...}
logout(a) ==
    set(a, [user |-> null, isAuthenticated |-> FALSE, token |-> null,
            error |-> Nil, isLoading |-> FALSE])

\* checkAuth: async () => {...}, on the state it read at its start
checkAuth(a) ==
    LET a1 == set(a, [isLoading |-> TRUE, error |-> Nil])
    IN IF Falsy(a.token) \/ a.user = null THEN logout(a1)
       ELSE IF ~isValidToken(a.token)
            THEN logout(set(logout(a1), [error |-> "Invalid token format", isLoading |-> FALSE]))
       ELSE set(a1, [isLoading |-> FALSE])

AuthLogin(user, token) ==
    /\ auth' = login(auth, user, token)
    /\ lastOp' = Op("login", Nil, LoginError(user, token) = Nil)

AuthLogout ==
    /\ auth' = logout(auth)
    /\ lastOp' = Op("logout", Nil, TRUE)

AuthCheckAuth ==
    /\ auth' = checkAuth(auth)
    /\ lastOp' = Op("checkAuth", Nil, auth'.token # null)

\* setError: (error) => set({ error })
AuthSetError(error) ==
    /\ auth' = set(auth, [error |-> error])
    /\ lastOp' = Op("setError", Nil, TRUE)

\* clearError: () => set({ error: null })
AuthClearError ==
    /\ auth' = set(auth, [error |-> Nil])
    /\ lastOp' = Op("clearError", Nil, TRUE)

\* the page is loaded again: persist restores user, token and
\* isAuthenticated from 'auth-storage', the other fields start anew
AuthReload ==
    /\ auth' = set(AuthState, [user |-> auth.user, token |-> auth.token,
                               isAuthenticated |-> auth.isAuthenticated])
    /\ lastOp' = Op("reload", Nil, TRUE)

(* --------------------- MeetingService (client, meeting.ts) -------------- *)
\* private maxReconnectAttempts = 5
maxReconnectAttempts == 5

\* the Peer objects initializeMeeting creates, by their peerId
PeerObjects == {"peerA", "peerB"}
\* the remote participant, and the MediaConnection and DataConnection objects
\* the library creates for calls and connections with it
RemotePeers == {"r1"}
CallObjects == {"callA", "callB"}
ConnObjects == {"connA", "connB"}
\* the invocations of toggleScreenShare / stopScreenShare that may be
\* pending at a time
ShareCalls == {"shareA", "shareB"}
\* the streams getDisplayMedia may return
ScreenStreams == {"screenA", "screenB"}

\* The fields of a new MeetingService the reconnection uses.  peer names
\* this.peer ("none" for null); peers holds the state of every Peer, "new"
\* before it is created: a Peer that this.peer no longer names keeps its
\* handlers.  inits holds, for the initializeMeeting call that created each
\* Peer, the await it stands at, and joinRequest the number its join request
\* has in the RequestQueue while it is in flight.  reconnectTimeout is 0 (null)
\* or the id window.setTimeout returned; timers are the ids of the pending
\* timeouts; emitted lists the events the last step emitted; cleanedUp says
\* that cleanup() returned and initializeMeeting was not called since.
\* localStream says whether the stream is set and localVideo names its
\* video track ("camera" or the screen stream it was taken from).  calls and
\* dataConnections are the two Maps, with "none" for an absent key and
\* callsEntry counting the insertions of a key, which is what an iteration
\* of the Map goes by; callObjects and connObjects hold for every connection
\* object who created it ("in" by the remote peer, "out" by callPeer), the
\* remote peer, the Peer it belongs to and its state.  isScreenSharing is the
\* flag of the meeting store; screenStream names the stream this.screenStream
\* holds, and screens gives for each stream whether its video track is live,
\* was stopped or has ended, and whether onended is set on it.  shares holds
\* for every pending toggleScreenShare / stopScreenShare its await and the
\* entry of calls its loop visited last.
MeetingService ==
    [peer |-> "none", peers |-> [p \in PeerObjects |-> "new"],
     inits |-> [p \in PeerObjects |-> "none"],
     joinRequest |-> [p \in PeerObjects |-> 0], isInitialized |-> FALSE,
     reconnectAttempts |-> 0, reconnectTimeout |-> 0,
     timers |-> {}, nextTimer |-> 1, emitted |-> <<>>, cleanedUp |-> FALSE,
     localStream |-> FALSE, localVideo |-> "none",
     screenStream |-> "none", isScreenSharing |-> FALSE,
     calls |-> [r \in RemotePeers |-> "none"],
     callsEntry |-> [r \in RemotePeers |-> 0],
     dataConnections |-> [r \in RemotePeers |-> "none"],
     screens |-> [k \in ScreenStreams |-> [state |-> "new", onended |-> FALSE]],
     callObjects |-> [c \in CallObjects |->
                        [kind |-> "none", peer |-> "none", owner |-> "none", state |-> "new"]],
     connObjects |-> [c \in ConnObjects |->
                        [kind |-> "none", peer |-> "none", owner |-> "none", state |-> "new"]],
     shares |-> [s \in ShareCalls |-> [at |-> "idle", seen |-> 0, videoTrack |-> "none"]]]

\* this.peer: "none" for null, else the state of the Peer
ThisPeer(m) == IF m.peer = "none" THEN "none" ELSE m.peers[m.peer]

\* this.emitEvent(type, ...)
emitEvent(m, type) == [m EXCEPT !.emitted = Append(@, type)]

\* a faulty test: the number of attempts is not limited
MayReconnectAlways(m) == TRUE

\* if (this.reconnectAttempts < this.maxReconnectAttempts)
MayReconnect(m) == m.reconnectAttempts < maxReconnectAttempts

\* private handleDisconnection(): void
handleDisconnection(m) ==
    IF MayReconnect(m)
    THEN LET m1 == emitEvent([m EXCEPT !.reconnectAttempts = @ + 1], "reconnecting")
             \* if (this.reconnectTimeout) clearTimeout(this.reconnectTimeout)
             m2 == [m1 EXCEPT !.timers = IF m1.reconnectTimeout # 0
                                         THEN @ \ {m1.reconnectTimeout} ELSE @]
         IN [m2 EXCEPT !.reconnectTimeout = m2.nextTimer,
                       !.timers = @ \cup {m2.nextTimer},
                       !.nextTimer = @ + 1]
    ELSE emitEvent(m, "error")

\* private handlePeerError(error: any): void
PeerErrorTypes == {"peer-unavailable", "network", "server-error", "socket-error", "browser-incompatible"}
handlePeerError(m, type) ==
    IF type \in {"network", "socket-error"}
    THEN handleDisconnection(emitEvent(m, "error"))
    ELSE emitEvent(m, "error")

\* private reconnectPeer(): void, on this.peer.  peer.reconnect() reopens the
\* socket of a disconnected peer, only logs when the peer is still
\* connecting, and throws when the peer is open.
reconnectPeer(m) ==
    IF ThisPeer(m) \in {"none", "destroyed"} THEN m
    ELSE IF ThisPeer(m) = "disconnected"
         THEN emitEvent([m EXCEPT !.peers[m.peer] = "connecting"], "reconnected")
    ELSE IF ThisPeer(m) = "connecting" THEN emitEvent(m, "reconnected")
    ELSE handleDisconnection(m)

\* a step starts with an empty list of emitted events
Called(m) == [m EXCEPT !.emitted = <<>>]

\* reject(...) of the promise of setupPeerEventHandlers for the call of Peer
\* i: a call still awaiting it goes to its catch, emits 'error' and returns
\* false; a promise already settled stays as it is.
RejectCall(m, i) ==
    IF m.inits[i] = "open"
    THEN emitEvent([m EXCEPT !.inits[i] = "failed"], "error")
    ELSE m

\* initializeMeeting up to its first await: without a user in the auth store
\* it throws and its catch emits 'error'; else this.peer = new Peer(...) and
\* setupPeerEventHandlers registers the handlers on it.
MsInitialize ==
    /\ IF auth.user = null
       THEN ms' = emitEvent(Called(ms), "error")
       ELSE /\ \E p \in PeerObjects : ms.peers[p] = "new"
            /\ LET p == CHOOSE p \in PeerObjects : ms.peers[p] = "new"
               IN ms' = [Called(ms) EXCEPT !.peer = p,
                                           !.peers[p] = "connecting",
                                           !.inits[p] = "open",
                                           !.cleanedUp = FALSE]
    /\ lastOp' = Op("ms-initialize", Nil, auth.user # null)

\* this.peer.on('open', ...) of Peer i: the counter is reset and the promise
\* resolved, so a call awaiting it goes on to getLocalStream
MsPeerOpen(i) ==
    /\ ms.peers[i] = "connecting"
    /\ ms' = [Called(ms) EXCEPT !.peers[i] = "open",
                                !.reconnectAttempts = 0,
                                !.inits[i] = IF @ = "open" THEN "stream" ELSE @]
    /\ lastOp' = Op("peer-open", Nil, TRUE)

\* this.peer.on('disconnected', ...) of Peer i: the connection to the server
\* is lost
MsPeerDisconnected(i) ==
    /\ ms.peers[i] \in {"connecting", "open"}
    /\ ms.nextTimer <= MaxTimers
    /\ ms' = handleDisconnection([Called(ms) EXCEPT !.peers[i] = "disconnected"])
    /\ lastOp' = Op("peer-disconnected", Nil, TRUE)

\* this.peer.on('error', ...) of Peer i: if (!this.isInitialized)
\* reject(error); this.handlePeerError(error).  The catch of the rejected
\* call runs after the handler returned.
MsPeerError(i, type) ==
    /\ ms.peers[i] \in {"connecting", "open", "disconnected"}
    /\ ms.nextTimer <= MaxTimers
    /\ LET m == handlePeerError(Called(ms), type)
       IN ms' = IF ms.isInitialized THEN m ELSE RejectCall(m, i)
    /\ lastOp' = Op("peer-error", Nil, TRUE)

\* the 15 s timeout of setupPeerEventHandlers for the call of Peer i:
\* if (!this.isInitialized) reject(...)
MsConnectionTimeout(i) ==
    /\ ms.inits[i] = "open"
    /\ ~ms.isInitialized
    /\ ms' = RejectCall(Called(ms), i)
    /\ lastOp' = Op("ms-timeout", Nil, TRUE)

\* the rest of initializeMeeting once notifyServerJoin returned:
\* this.isInitialized = true; emitEvent('participant-joined'); return true
FinishInitialize(m, i) ==
    emitEvent([m EXCEPT !.inits[i] = "done", !.joinRequest[i] = 0,
                        !.isInitialized = TRUE], "participant-joined")

\* await this.getLocalStream() of the call of Peer i ends.  Without a stream
\* getLocalStream emits 'error' and throws, and the catch emits 'error'.
\* With one the call adds the participant and notifyServerJoin gives the
\* join request to the RequestQueue (api.joinMeeting, fetchWithAuth), which
\* has a slot for it as it holds one request per Peer at most and starts it:
\* when localStorage cannot be read (denied) the request is rejected,
\* notifyServerJoin emits 'error' and the call runs to its end; without an
\* 'auth-token' the request resolves at once and the call runs to its end;
\* with one the fetch is sent and the call awaits its answer.
MsLocalStream(i, ok, denied) ==
    /\ ms.inits[i] = "stream"
    /\ LET m == Called(ms)
           gotStream == [m EXCEPT !.localStream = TRUE, !.localVideo = "camera"]
           id == rq.added + 1
       IN IF ~ok
          THEN /\ ms' = emitEvent(emitEvent([m EXCEPT !.inits[i] = "failed"], "error"), "error")
               /\ rq' = rq
          ELSE IF denied
          THEN /\ ms' = FinishInitialize(emitEvent(gotStream, "error"), i)
               /\ rq' = settle(add(rq), id, FALSE)
          ELSE IF Falsy(localStorage)
          THEN /\ ms' = FinishInitialize(gotStream, i)
               /\ rq' = settle(add(rq), id, TRUE)
          ELSE /\ ms' = [gotStream EXCEPT !.inits[i] = "join", !.joinRequest[i] = id]
               /\ rq' = add(rq)
    /\ lastOp' = Op("ms-stream", Nil, ok)
    /\ UNCHANGED <<auth, localStorage>>

\* the answers to the join request as handleResponse and fetchWithAuth tell
\* them apart: 2xx; 401; any other status, or no answer at all
JoinAnswers == {"ok", "unauthorized", "failed"}

\* the fetch of the join request of Peer i ends.  On 401 handleResponse
\* removes 'auth-token' and logs the auth store out.  fetchWithAuth resolves
\* whatever the answer, so the queue settles the request, notifyServerJoin
\* returns without an event and the call runs to its end.
MsServerJoin(i, answer) ==
    /\ ms.inits[i] = "join"
    /\ ms.joinRequest[i] \in rq.running
    /\ ms' = FinishInitialize(Called(ms), i)
    /\ rq' = settle(rq, ms.joinRequest[i], TRUE)
    /\ IF answer = "unauthorized"
       THEN localStorage' = null /\ auth' = logout(auth)
       ELSE UNCHANGED <<auth, localStorage>>
    /\ lastOp' = Op("ms-join", Nil, answer = "ok")

\* the timeout of handleDisconnection expires: reconnectPeer()
MsTimerFires(id) ==
    /\ id \in ms.timers
    /\ ms.nextTimer <= MaxTimers
    /\ ms' = reconnectPeer([Called(ms) EXCEPT !.timers = @ \ {id}])
    /\ lastOp' = Op("timer", Nil, TRUE)

\* the next unused connection object
NewCall(m) == IF m.callObjects["callA"].state = "new" THEN "callA" ELSE "callB"
NewConn(m) == IF m.connObjects["connA"].state = "new" THEN "connA" ELSE "connB"

\* this.calls.set(r, c): a key that is absent makes a new entry of the Map
SetCall(m, r, c) ==
    [m EXCEPT !.calls[r] = c,
              !.callsEntry[r] = IF m.calls[r] = "none" THEN @ + 1 ELSE @]

\* call.on('close', ...) of call object c: removeParticipant emits
\* 'participant-left'; the handler callPeer registered also deletes the
\* data connection of the peer
CallClosed(m, c) ==
    LET r == m.callObjects[c].peer
        m1 == emitEvent(m, "participant-left")
        m2 == [m1 EXCEPT !.calls[r] = "none",
                         !.dataConnections[r] =
                             IF m.callObjects[c].kind = "out" THEN "none" ELSE @]
    IN emitEvent(m2, "stream-removed")

\* call.on('error', ...) of call object c
CallFailed(m, c) ==
    LET r == m.callObjects[c].peer
        m1 == emitEvent(m, "participant-left")
        m2 == [m1 EXCEPT !.calls[r] = "none",
                         !.dataConnections[r] =
                             IF m.callObjects[c].kind = "out" THEN "none" ELSE @]
    IN emitEvent(m2, "error")

\* call.close() of the library: an open call raises 'close', a call not yet
\* answered is closed silently, a closed one is left alone
closeCall(m, c) ==
    IF m.callObjects[c].state = "open"
    THEN CallClosed([m EXCEPT !.callObjects[c].state = "closed"], c)
    ELSE IF m.callObjects[c].state = "pending"
    THEN [m EXCEPT !.callObjects[c].state = "closed"]
    ELSE m

\* conn.on('close', ...) of a connection the remote peer opened
ConnClosed(m, c) ==
    IF m.connObjects[c].kind = "in"
    THEN [m EXCEPT !.dataConnections[m.connObjects[c].peer] = "none"]
    ELSE m

\* conn.close() of the library: only an open connection raises 'close'
closeConn(m, c) ==
    IF m.connObjects[c].state = "open"
    THEN ConnClosed([m EXCEPT !.connObjects[c].state = "closed"], c)
    ELSE IF m.connObjects[c].state = "pending"
    THEN [m EXCEPT !.connObjects[c].state = "closed"]
    ELSE m

\* the library closes the connections of Peer p when it destroys it, in the
\* order they were made
closeConnections(m, p) ==
    LET own(o) == o.owner = p
        m1 == IF own(m.callObjects["callA"]) THEN closeCall(m, "callA") ELSE m
        m2 == IF own(m1.callObjects["callB"]) THEN closeCall(m1, "callB") ELSE m1
        m3 == IF own(m2.connObjects["connA"]) THEN closeConn(m2, "connA") ELSE m2
    IN IF own(m3.connObjects["connB"]) THEN closeConn(m3, "connB") ELSE m3

\* peer.destroy() of Peer p, not destroyed yet: it closes the connections
\* of the Peer, raises 'disconnected' when the peer was still connected to
\* the server, and then 'close', before it returns; both handlers call
\* handleDisconnection
destroy(m, p) ==
    LET d == [closeConnections(m, p) EXCEPT !.peers[p] = "destroyed"]
    IN handleDisconnection(IF m.peers[p] \in {"connecting", "open"}
                           THEN handleDisconnection(d) ELSE d)

\* Peer i is destroyed by the library itself, after a fatal error:
\* this.peer.on('close', ...), preceded by 'disconnected'
MsPeerClose(i) ==
    /\ ms.peers[i] \in {"connecting", "open", "disconnected"}
    /\ ms.nextTimer <= MaxTimers
    /\ ms' = destroy(Called(ms), i)
    /\ lastOp' = Op("peer-close", Nil, TRUE)

\* track.stop() on the video track of stream k: a live track is stopped,
\* and no event is raised
stopTrack(screens, k) ==
    [screens EXCEPT ![k].state = IF @ = "live" THEN "stopped" ELSE @]

\* the video tracks of the streams named in ks are stopped
stopTracks(screens, ks) ==
    [k \in ScreenStreams |-> IF k \in ks THEN stopTrack(screens, k)[k] ELSE screens[k]]

\* for (const [, call] of this.calls) call.close(); this.calls.clear()
closeCalls(m) ==
    LET r == CHOOSE r \in RemotePeers : TRUE
        m1 == IF m.calls[r] = "none" THEN m ELSE closeCall(m, m.calls[r])
    IN [m1 EXCEPT !.calls = [q \in RemotePeers |-> "none"]]

\* for (const [, conn] of this.dataConnections) conn.close();
\* this.dataConnections.clear()
closeDataConnections(m) ==
    LET r == CHOOSE r \in RemotePeers : TRUE
        m1 == IF m.dataConnections[r] = "none" THEN m ELSE closeConn(m, m.dataConnections[r])
    IN [m1 EXCEPT !.dataConnections = [q \in RemotePeers |-> "none"]]

\* cleanup(): void.  The tracks of the streams are stopped, which raises no
\* event; the streams and the peer stay set.
cleanup(m) ==
    LET m1 == [m EXCEPT !.timers = IF m.reconnectTimeout # 0
                                   THEN @ \ {m.reconnectTimeout} ELSE @,
                        !.screens = stopTracks(@, {m.localVideo, m.screenStream})]
        m2 == closeDataConnections(closeCalls(m1))
        m3 == IF ThisPeer(m2) \in {"none", "destroyed"} THEN m2
              ELSE destroy(m2, m2.peer)
    IN [m3 EXCEPT !.cleanedUp = TRUE]

MsCleanup ==
    /\ ms.nextTimer <= MaxTimers
    /\ ms' = cleanup(Called(ms))
    /\ lastOp' = Op("ms-cleanup", Nil, TRUE)

(* calls, data connections and screen sharing *)
\* async callPeer(peerId): it has no await.  peer.call() on a peer that is
\* disconnected from the server raises the peer's 'error' and returns
\* nothing, so the catch emits 'error'.
callPeer(m, r) ==
    IF ThisPeer(m) = "none" \/ ~m.localStream THEN emitEvent(m, "error")
    ELSE IF ThisPeer(m) \in {"disconnected", "destroyed"}
    THEN LET m1 == emitEvent(handlePeerError(m, "disconnected"), "error")
         IN IF m.isInitialized THEN m1 ELSE RejectCall(m1, m.peer)
    ELSE LET c == NewCall(m)
             d == NewConn(m)
             m1 == SetCall([m EXCEPT !.callObjects[c] =
                              [kind |-> "out", peer |-> r, owner |-> m.peer, state |-> "pending"]],
                           r, c)
         IN [m1 EXCEPT !.connObjects[d] =
                           [kind |-> "out", peer |-> r, owner |-> m.peer, state |-> "pending"],
                       !.dataConnections[r] = d]

MsCallPeer(r) ==
    /\ \E c \in CallObjects : ms.callObjects[c].state = "new"
    /\ \E c \in ConnObjects : ms.connObjects[c].state = "new"
    /\ ms' = callPeer(Called(ms), r)
    /\ lastOp' = Op("call-peer", Nil, TRUE)

\* private handleIncomingCall(call), raised by Peer p for a call of r
handleIncomingCall(m, p, r) ==
    IF ~m.localStream THEN m
    ELSE LET c == NewCall(m)
         IN SetCall([m EXCEPT !.callObjects[c] =
                        [kind |-> "in", peer |-> r, owner |-> p, state |-> "open"]], r, c)

MsIncomingCall(p, r) ==
    /\ ms.peers[p] = "open"
    /\ \E c \in CallObjects : ms.callObjects[c].state = "new"
    /\ ms' = handleIncomingCall(Called(ms), p, r)
    /\ lastOp' = Op("incoming-call", Nil, TRUE)

\* private handleDataConnection(conn), raised by Peer p for a connection of r
handleDataConnection(m, p, r) ==
    LET d == NewConn(m)
    IN [m EXCEPT !.connObjects[d] =
                     [kind |-> "in", peer |-> r, owner |-> p, state |-> "pending"],
                 !.dataConnections[r] = d]

MsIncomingConnection(p, r) ==
    /\ ms.peers[p] = "open"
    /\ \E c \in ConnObjects : ms.connObjects[c].state = "new"
    /\ ms' = handleDataConnection(Called(ms), p, r)
    /\ lastOp' = Op("incoming-connection", Nil, TRUE)

\* call.on('stream', ...): the remote stream arrives, on a call that was
\* answered: addRemoteParticipant, 'stream-added'
MsCallStream(c) ==
    /\ ms.callObjects[c].state \in {"pending", "open"}
    /\ ms' = emitEvent([Called(ms) EXCEPT !.callObjects[c].state = "open"], "stream-added")
    /\ lastOp' = Op("call-stream", Nil, TRUE)

\* the call ends at the remote side: call.on('close', ...)
MsCallClose(c) ==
    /\ ms.callObjects[c].state = "open"
    /\ ms' = closeCall(Called(ms), c)
    /\ lastOp' = Op("call-close", Nil, TRUE)

\* call.on('error', ...)
MsCallError(c) ==
    /\ ms.callObjects[c].state \in {"pending", "open"}
    /\ ms' = CallFailed(Called(ms), c)
    /\ lastOp' = Op("call-error", Nil, TRUE)

\* the data connection is established (no handler of the service)
MsConnOpen(c) ==
    /\ ms.connObjects[c].state = "pending"
    /\ ms' = [Called(ms) EXCEPT !.connObjects[c].state = "open"]
    /\ lastOp' = Op("conn-open", Nil, TRUE)

\* private handleDataMessage(peerId, data): the event of each message type
DataTypes == {"chat", "participant-update", "hand-raised", "hand-lowered",
              "screen-share-started", "screen-share-ended", "unknown"}
handleDataMessage(m, type) ==
    CASE type = "chat" -> emitEvent(m, "chat-message")
      [] type = "participant-update" -> emitEvent(m, "participant-updated")
      [] type = "unknown" -> m
      [] OTHER -> emitEvent(m, type)

\* conn.on('data', ...) of a connection the remote peer opened
MsConnData(c, type) ==
    /\ ms.connObjects[c].kind = "in"
    /\ ms.connObjects[c].state = "open"
    /\ ms' = handleDataMessage(Called(ms), type)
    /\ lastOp' = Op("conn-data", Nil, TRUE)

\* the data connection is closed by the remote side: conn.on('close', ...)
MsConnClose(c) ==
    /\ ms.connObjects[c].state = "open"
    /\ ms' = closeConn(Called(ms), c)
    /\ lastOp' = Op("conn-close", Nil, TRUE)

\* conn.on('error', ...) of a connection the remote peer opened
MsConnError(c) ==
    /\ ms.connObjects[c].kind = "in"
    /\ ms.connObjects[c].state \in {"pending", "open"}
    /\ ms' = ConnClosed(Called(ms), c)
    /\ lastOp' = Op("conn-error", Nil, TRUE)

\* the slot of the next call of toggleScreenShare or stopScreenShare, if any
NewShare(m) ==
    IF m.shares["shareA"].at = "idle" THEN "shareA"
    ELSE IF m.shares["shareB"].at = "idle" THEN "shareB" ELSE "none"

\* private broadcastDataMessage(data), and broadcastParticipantUpdate alike:
\* conn.send(data) on every data connection.  On a connection that is not
\* open the library raises the connection's 'error' instead of sending, and
\* the handler of handleDataConnection deletes the entry of the peer.
broadcastDataMessage(m) ==
    IF m.peer = "none" THEN m
    ELSE LET r == CHOOSE r \in RemotePeers : TRUE
             d == m.dataConnections[r]
         IN IF d # "none" /\ m.connObjects[d].state # "open" THEN ConnClosed(m, d) ELSE m

\* the catch of toggleScreenShare / stopScreenShare
FailShare(m, s) ==
    emitEvent([m EXCEPT !.shares[s] = [at |-> "idle", seen |-> 0, videoTrack |-> "none"]],
              "error")

\* the statements after the loop: of toggleScreenShare (start), which sets
\* videoTrack.onended, or of stopScreenShare; both flip the flag of the
\* store, tell the other peers and emit the event
FinishShare(m, s, start) ==
    LET k == m.shares[s].videoTrack
        m1 == [m EXCEPT !.shares[s] = [at |-> "idle", seen |-> 0, videoTrack |-> "none"],
                        !.isScreenSharing = ~@]
        \* the video track of localStream is stopped and replaced
        m2 == IF ~m.localStream THEN m1
              ELSE [m1 EXCEPT !.screens = IF m.localVideo \in ScreenStreams
                                          THEN stopTrack(@, m.localVideo) ELSE @,
                              !.localVideo = IF start THEN k ELSE "camera"]
    IN IF start
       THEN emitEvent(broadcastDataMessage([m2 EXCEPT !.screens[k].onended = TRUE]),
                      "screen-share-started")
       ELSE emitEvent(broadcastDataMessage(
                          [m2 EXCEPT !.screenStream = "none",
                                     !.screens = IF m.screenStream = "none" THEN @
                                                 ELSE stopTrack(@, m.screenStream)]),
                      "screen-share-ended")

\* the entries of this.calls the loop of s has not visited yet
Unvisited(m, s) ==
    {r \in RemotePeers : m.calls[r] # "none" /\ m.callsEntry[r] > m.shares[s].seen}

\* for (const [, call] of this.calls) { sender = ...; if (sender) await
\* sender.replaceTrack(track) }, from the entry after the one visited last:
\* a closed call has no peerConnection, so the loop throws; with a video
\* sender (found) the loop awaits replaceTrack; without one it goes on
RECURSIVE ReplaceTracks(_, _, _, _)
ReplaceTracks(m, s, start, found) ==
    IF Unvisited(m, s) = {} THEN FinishShare(m, s, start)
    ELSE LET r == CHOOSE r \in Unvisited(m, s) : TRUE
             m1 == [m EXCEPT !.shares[s].seen = m.callsEntry[r]]
         IN IF m.callObjects[m.calls[r]].state = "closed" THEN FailShare(m1, s)
            ELSE IF found
            THEN [m1 EXCEPT !.shares[s].at = IF start THEN "replaceStart" ELSE "replaceStop"]
            ELSE ReplaceTracks(m1, s, start, found)

\* async toggleScreenShare(), up to its first await: getDisplayMedia when
\* the store says that the screen is not shared, else stopScreenShare and its
\* getUserMedia
MsToggleScreenShare(s) ==
    /\ s = NewShare(ms)
    /\ ms' = [Called(ms) EXCEPT !.shares[s].at = IF ms.isScreenSharing THEN "camera" ELSE "display"]
    /\ lastOp' = Op("toggle-screen-share", Nil, TRUE)

\* the user ends the sharing of stream k in the browser: with onended set,
\* stopScreenShare runs up to its getUserMedia
MsScreenTrackEnded(k) ==
    /\ ms.screens[k].state = "live"
    /\ ms.screens[k].onended => NewShare(ms) # "none"
    /\ ms' = IF ms.screens[k].onended
             THEN [Called(ms) EXCEPT !.screens[k].state = "ended",
                                     !.shares[NewShare(ms)].at = "camera"]
             ELSE [Called(ms) EXCEPT !.screens[k].state = "ended"]
    /\ lastOp' = Op("screen-track-ended", Nil, ms.screens[k].onended)

\* the stream the next getDisplayMedia returns, if any
NewScreen(m) ==
    IF m.screens["screenA"].state = "new" THEN "screenA"
    ELSE IF m.screens["screenB"].state = "new" THEN "screenB" ELSE "none"

\* await getDisplayMedia(...) ends
MsDisplayMedia(s, ok, found) ==
    /\ ms.shares[s].at = "display"
    /\ ok => NewScreen(ms) # "none"
    /\ ms' = IF ok
             THEN LET k == NewScreen(ms)
                  IN ReplaceTracks([Called(ms) EXCEPT !.screenStream = k,
                                                      !.screens[k].state = "live",
                                                      !.shares[s].videoTrack = k],
                                   s, TRUE, found)
             ELSE FailShare(Called(ms), s)
    /\ lastOp' = Op("display-media", Nil, ok)

\* await getUserMedia(...) of stopScreenShare ends
MsCameraMedia(s, ok, found) ==
    /\ ms.shares[s].at = "camera"
    /\ ms' = IF ok THEN ReplaceTracks(Called(ms), s, FALSE, found)
             ELSE FailShare(Called(ms), s)
    /\ lastOp' = Op("camera-media", Nil, ok)

\* await sender.replaceTrack(...) ends
MsReplaceTrack(s, ok, found) ==
    /\ ms.shares[s].at \in {"replaceStart", "replaceStop"}
    /\ ms' = IF ok THEN ReplaceTracks(Called(ms), s, ms.shares[s].at = "replaceStart", found)
             ELSE FailShare(Called(ms), s)
    /\ lastOp' = Op("replace-track", Nil, ok)

\* toggleAudio(): boolean, and toggleVideo() alike: the tracks of the local
\* stream are switched, the store is told and the update is broadcast; no
\* event is emitted
toggleAudio(m) == IF ~m.localStream THEN m ELSE broadcastDataMessage(m)

MsToggleAudio ==
    /\ ms' = toggleAudio(Called(ms))
    /\ lastOp' = Op("toggle-audio", Nil, ms.localStream)

\* toggleScreenSharing of the meeting store, called by a component
StoreToggleScreenSharing ==
    /\ ms' = [Called(ms) EXCEPT !.isScreenSharing = ~@]
    /\ lastOp' = Op("store-toggle-screen-sharing", Nil, TRUE)

\* the value localStorage.setItem(key, value) stores: String(value)
setItem(value) ==
    IF value = undefined THEN Str(<<"u", "n", "d", "e", "f", "i", "n", "e", "d">>)
    ELSE IF value = null THEN Str(<<"n", "u", "l", "l">>)
    ELSE value

\* result.data.token, result.data being the JSON of the answer as
\* handleResponse returns it: { success: true, data, message: data.message }
dataToken(json) == IF "token" \in DOMAIN json THEN json.token ELSE undefined

\* sendSuccessResponse(w, data): Response{Success: true, Data: data}
sendSuccessResponse(data) == [success |-> TRUE, data |-> data]

\* api.login or api.register is answered (status as JoinAnswers tells them
\* apart, json the body of a 2xx answer); denied: localStorage cannot be
\* accessed.  handleResponse removes 'auth-token' and logs the auth store out
\* on 401; on 2xx login stores result.data.token.  A localStorage that throws
\* ends either in a catch before anything was changed.  The RequestQueue has
\* no part in it.
ApiLogin(status, json, denied) ==
    /\ IF denied \/ status = "failed"
       THEN UNCHANGED <<localStorage, auth>>
       ELSE IF status = "unauthorized"
       THEN localStorage' = null /\ auth' = logout(auth)
       ELSE localStorage' = setItem(dataToken(json)) /\ UNCHANGED auth
    /\ lastOp' = Op("api-login", Nil, status = "ok" /\ ~denied)

\* fetchWithAuth(endpoint, options), up to its first await: the request is
\* given to the RequestQueue, which starts it.  When localStorage.getItem
\* throws the request is rejected; without an 'auth-token' it resolves
\* without a fetch; with one the fetch is sent.
fetchWithAuth(r, denied) ==
    IF denied THEN settle(add(r), r.added + 1, FALSE)
    ELSE IF Falsy(localStorage) THEN settle(add(r), r.added + 1, TRUE)
    ELSE add(r)

\* does the fetch of fetchWithAuth get sent?
Fetches(denied) == ~denied /\ ~Falsy(localStorage)

\* async logout() of api, up to the await of fetchWithAuth.  A request
\* without a fetch is over in the same task: resolved, logout removes the
\* item; rejected, the removeItem of the catch throws as well and the item
\* stays.
ApiLogoutCall(denied) ==
    /\ rq.added < MaxApiCalls
    /\ rq' = fetchWithAuth(rq, denied)
    /\ logouts' = IF Fetches(denied) THEN logouts \cup {rq.added + 1} ELSE logouts
    /\ localStorage' = IF Fetches(denied) \/ denied THEN localStorage ELSE null
    /\ lastOp' = Op("api-logout", Nil, Fetches(denied))
    /\ UNCHANGED auth

\* the request of a logout is answered: fetchWithAuth resolves whatever the
\* answer (on 401 handleResponse removes the item and logs the store out),
\* the queue frees the slot, and logout removes the item.  With a
\* localStorage that throws neither handleResponse nor logout changes
\* anything.
ApiLogoutAnswered(id, answer, denied) ==
    /\ id \in rq.running \cap logouts
    /\ rq' = settle(rq, id, TRUE)
    /\ logouts' = logouts \ {id}
    /\ localStorage' = IF denied THEN localStorage ELSE null
    /\ auth' = IF answer = "unauthorized" /\ ~denied THEN logout(auth) ELSE auth
    /\ lastOp' = Op("api-logout-answered", Nil, answer = "ok" /\ ~denied)

\* one of the api functions that return fetchWithAuth(...) is called:
\* refreshToken, createMeeting, getMeeting, getMeetings, ..., uploadFile
ApiFetchWithAuth(denied) ==
    /\ rq.added < MaxApiCalls
    /\ rq' = fetchWithAuth(rq, denied)
    /\ lastOp' = Op("api-fetch-with-auth", Nil, Fetches(denied))
    /\ UNCHANGED <<localStorage, auth, logouts>>

\* one of the api functions that return fetchPublic(...) is called:
\* forgotPassword, resetPassword, getMeetingByInviteCode, respondToInvite,
\* checkHealth.  The request is given to the RequestQueue, which starts it:
\* it awaits checkServerHealth().
ApiFetchPublic ==
    /\ rq.added < MaxApiCalls
    /\ rq' = add(rq)
    /\ lastOp' = Op("api-fetch-public", Nil, TRUE)
    /\ UNCHANGED <<localStorage, auth, logouts>>

\* the request of one of these calls is answered (or the health check or the
\* fetch fails): both functions resolve whatever the answer, on 401
\* handleResponse removes the item and logs the store out.
ApiFetchAnswered(id, answer, denied) ==
    /\ id \in rq.running \ logouts
    /\ \A i \in PeerObjects : ms.joinRequest[i] # id
    /\ rq' = settle(rq, id, TRUE)
    /\ IF answer = "unauthorized" /\ ~denied
       THEN localStorage' = null /\ auth' = logout(auth)
       ELSE UNCHANGED <<localStorage, auth>>
    /\ lastOp' = Op("api-fetch-answered", Nil, answer = "ok")
    /\ UNCHANGED logouts

\* the user of the auth store the service reads
MsUser == [id |-> Str(<<"u", "1">>), name |-> Str(<<"A">>), email |-> Str(<<"a", "@", "b">>)]
MsToken == Str(TokenPrefix \o <<"u", "1">>)

\* the JSON of a 2xx answer to api.login: what loginHandler sends
LoginAnswer == sendSuccessResponse([user |-> MsUser, token |-> MsToken])
\* the bodies api.login is answered with: that one, an AuthResponse as api.ts
\* declares it, and one with an empty token
LoginAnswers ==
    {LoginAnswer,
     [user |-> MsUser, token |-> MsToken],
     [user |-> MsUser, token |-> Str(<<>>)]}

(* ------------------------- rateLimitMiddleware -------------------------- *)
\* getClientIP(r) of the requests, and the tasks net/http runs the handler in
RateIPs == {"ip1", "ip2"}
RateTasks == {"g1", "g2"}
\* r.Use(rateLimitMiddleware(100))
RequestsPerMinute == 100
\* time.Minute, in seconds
Minute == 60

\* a task outside the middleware
RateIdle == [pc |-> "idle", ip |-> "", tmp |-> 0, old |-> FALSE]

\* requestCounts and lastReset as the program start leaves them, or after n
\* requests of ip1 served one after the other within the first minute
RateInit(n) ==
    /\ requestCounts = [ip \in RateIPs |-> IF ip = "ip1" THEN n ELSE 0]
    /\ admitted = [ip \in RateIPs |-> IF ip = "ip1" THEN n ELSE 0]
    /\ lastReset = 0
    /\ rl = [g \in RateTasks |-> RateIdle]
    /\ started = 0
    /\ crashed = FALSE

\* a request of client ip enters the handler: clientIP := getClientIP(r)
RateStart(g, ip) ==
    /\ ~crashed
    /\ rl[g].pc = "idle"
    /\ started < MaxRequests
    /\ started' = started + 1
    /\ rl' = [rl EXCEPT ![g] = [pc |-> "reset", ip |-> ip, tmp |-> 0, old |-> FALSE]]
    /\ UNCHANGED <<requestCounts, lastReset, admitted, crashed>>

\* if time.Since(lastReset) > time.Minute: the test alone.  No lock is held,
\* so another task may run between the test and the two assignments.
RateExpired(g) ==
    /\ ~crashed
    /\ rl[g].pc = "reset"
    /\ rl' = [rl EXCEPT ![g].pc = IF now - lastReset > Minute THEN "make" ELSE "load"]
    /\ UNCHANGED <<requestCounts, lastReset, admitted, started, crashed>>

\* requestCounts = make(map[string]int): the counts written so far are
\* dropped.  A task that is between the load and the store of its increment
\* keeps the slot of the map that was replaced.
RateMake(g) ==
    /\ ~crashed
    /\ rl[g].pc = "make"
    /\ requestCounts' = [ip \in RateIPs |-> 0]
    /\ admitted' = [ip \in RateIPs |-> 0]
    /\ rl' = [h \in RateTasks |->
                IF h = g THEN [rl[g] EXCEPT !.pc = "setlast"]
                ELSE IF rl[h].pc = "store" THEN [rl[h] EXCEPT !.old = TRUE]
                ELSE rl[h]]
    /\ UNCHANGED <<lastReset, started, crashed>>

\* lastReset = time.Now()
RateSetLast(g) ==
    /\ ~crashed
    /\ rl[g].pc = "setlast"
    /\ lastReset' = now
    /\ rl' = [rl EXCEPT ![g].pc = "load"]
    /\ UNCHANGED <<requestCounts, admitted, started, crashed>>

\* requestCounts[clientIP]++, first half: the value is read
RateLoad(g) ==
    /\ ~crashed
    /\ rl[g].pc = "load"
    /\ rl' = [rl EXCEPT ![g].pc = "store", ![g].tmp = requestCounts[rl[g].ip]]
    /\ UNCHANGED <<requestCounts, lastReset, admitted, started, crashed>>

\* requestCounts[clientIP]++, second half: the value plus one is written
RateStore(g) ==
    /\ ~crashed
    /\ rl[g].pc = "store"
    /\ requestCounts' = IF rl[g].old THEN requestCounts
                        ELSE [requestCounts EXCEPT ![rl[g].ip] = rl[g].tmp + 1]
    /\ rl' = [rl EXCEPT ![g].pc = "test"]
    /\ UNCHANGED <<lastReset, admitted, started, crashed>>

\* if requestCounts[clientIP] > requestsPerMinute { 429; return }; next.ServeHTTP(w, r)
RateTest(g) ==
    /\ ~crashed
    /\ rl[g].pc = "test"
    /\ admitted' = IF requestCounts[rl[g].ip] > RequestsPerMinute THEN admitted
                   ELSE [admitted EXCEPT ![rl[g].ip] = @ + 1]
    /\ rl' = [rl EXCEPT ![g] = RateIdle]
    /\ UNCHANGED <<requestCounts, lastReset, started, crashed>>

\* The map is written by one task while another task reads or writes it: the
\* run time may detect it and end the process ("concurrent map writes").
RateCrash ==
    /\ ~crashed
    /\ \E g \in RateTasks : \E h \in RateTasks \ {g} :
          rl[g].pc = "load" /\ rl[h].pc \in {"load", "test"}
    /\ crashed' = TRUE
    /\ UNCHANGED <<requestCounts, lastReset, rl, admitted, started>>

InitCore ==
    /\ clients = {}
    /\ meetings = <<>>
    /\ send = [c \in Conns |-> <<>>]
    /\ closed = [c \in Conns |-> FALSE]
    /\ panicked = FALSE
    /\ lastOp = Op("init", Nil, TRUE)
    /\ ops = 0
    /\ unregistered = {}
    /\ evicted = {}
    /\ leftCount = [p \in PeerIDs |-> [d \in Conns |-> 0]]
    /\ joining = {}
    /\ joinOrder = <<>>
    /\ pending = <<>>
    /\ wsOpen = {}
    /\ wsOut = [c \in Conns |-> <<>>]
    /\ participants = {}
    /\ dbMeetings = <<>>
    /\ now = 0
    /\ inserted = 0
    /\ httpReq = Request(NoCookie, Nil, BadBody)
    /\ httpResp = Response("", "")
    /\ reader = [c \in Conns |-> 0]
    /\ written = [c \in Conns |-> <<>>]
    /\ logouts = {}

Init ==
    /\ InitCore /\ RateInit(0)
    /\ ms = MeetingService /\ rq = RequestQueue /\ auth = AuthState
    /\ localStorage = null

\* Any request may be submitted on the three channels of the Hub at any
\* time; the Hub serves one request per step.
Next ==
    \/ \E c \in Conns : Served /\ Register(c) /\ UNCHANGED <<joinVars, wsVars, apiVars, otherVars>>
    \/ \E c \in Conns : Served /\ Unregister(c) /\ UNCHANGED <<joinVars, wsVars, apiVars, otherVars>>
    \/ \E b \in RawMsgs : Served /\ Broadcast(b) /\ UNCHANGED <<joinVars, wsVars, apiVars, otherVars>>
    \/ \E c \in Conns : Served /\ WriterDequeue(c) /\ UNCHANGED <<joinVars, wsVars, apiVars, otherVars>>

Spec == Init /\ [][Next]_vars

\* The Hub run for ever with two connections of one meeting: the worker loop
\* `for { select {...} }` never stops serving requests, and the writer tasks
\* keep draining their queues.
LiveConns == {"c1", "c2"}

LiveNext ==
    \/ \E c \in LiveConns : Register(c) /\ UNCHANGED <<ops, joinVars, wsVars, apiVars, otherVars>>
    \/ \E c \in LiveConns : Unregister(c) /\ UNCHANGED <<ops, joinVars, wsVars, apiVars, otherVars>>
    \/ \E b \in RawMsgs : Broadcast(b) /\ UNCHANGED <<ops, joinVars, wsVars, apiVars, otherVars>>
    \/ \E c \in LiveConns : WriterDequeue(c) /\ UNCHANGED <<ops, joinVars, wsVars, apiVars, otherVars>>

(* --------------------------- websocketHandler --------------------------- *)
\* the connections and target peer ids used on the websocket endpoint
WsConns == {"c1", "c2"}
WsTargets == {"p1", "p2", "p9"}
WsFrames(c) == {SignalingData(t, PeerOf(c), p) : t \in SignalTypes, p \in WsTargets}

FramesWritten == Len(wsOut["c1"]) + Len(wsOut["c2"]) + Len(wsOut["c3"]) + Len(wsOut["c4"])

\* conn, err := wsUpgrader.Upgrade(w, r, nil): CheckOrigin decides; on an
\* error the handler returns
WsUpgrade(c, origin) ==
    /\ c \notin wsOpen
    /\ wsOpen' = IF isAllowedOrigin(origin) THEN wsOpen \cup {c} ELSE wsOpen
    /\ lastOp' = Op("ws-upgrade", c, isAllowedOrigin(origin))
    /\ UNCHANGED <<hubVars, wsOut>>

\* one turn of the loop: conn.ReadMessage() then conn.WriteMessage(msg) on
\* the same connection
WsEcho(c, msg) ==
    /\ c \in wsOpen
    /\ FramesWritten < MaxFrames
    /\ wsOut' = [wsOut EXCEPT ![c] = Append(@, msg)]
    /\ lastOp' = Op("ws-echo", c, TRUE)
    /\ UNCHANGED <<hubVars, wsOpen>>

\* ReadMessage or WriteMessage fails: break, and the deferred conn.Close()
WsClose(c) ==
    /\ c \in wsOpen
    /\ wsOpen' = wsOpen \ {c}
    /\ lastOp' = Op("ws-close", c, TRUE)
    /\ UNCHANGED <<hubVars, wsOut>>

\* The websocket endpoint next to a Hub into which the same connections are
\* registered once each.
WsNext ==
    \/ \E c \in WsConns : \E o \in Origins : WsUpgrade(c, o) /\ UNCHANGED <<ops, joinVars, apiVars, otherVars>>
    \/ \E c \in WsConns : \E msg \in WsFrames(c) : WsEcho(c, msg) /\ UNCHANGED <<ops, joinVars, apiVars, otherVars>>
    \/ \E c \in WsConns : WsClose(c) /\ UNCHANGED <<ops, joinVars, apiVars, otherVars>>
    \/ \E c \in WsConns : c \notin clients /\ ~closed[c] /\ Register(c)
                                /\ UNCHANGED <<ops, joinVars, wsVars, apiVars, otherVars>>

WsSpec == Init /\ [][WsNext]_vars

\* Concurrent joins: a connection task blocks in `hub.register <- c` until
\* the Hub receives from the unbuffered channel; the Hub takes the blocked
\* senders in any order.  No other request is submitted.
SubmitRegister(c) ==
    /\ c \notin joining
    /\ \A i \in 1..Len(joinOrder) : joinOrder[i] # c
    /\ joining' = joining \cup {c}
    /\ lastOp' = Op("submit", c, TRUE)
    /\ UNCHANGED <<hubVars, joinOrder, pending>>

ProcessRegister(c) ==
    /\ c \in joining
    /\ Register(c)
    /\ joining' = joining \ {c}
    /\ joinOrder' = Append(joinOrder, c)
    /\ UNCHANGED pending

JoinNext ==
    \/ \E c \in Conns : SubmitRegister(c) /\ UNCHANGED <<ops, wsVars, apiVars, otherVars>>
    \/ \E c \in Conns : ProcessRegister(c) /\ UNCHANGED <<ops, wsVars, apiVars, otherVars>>

JoinSpec == Init /\ [][JoinNext]_vars

LiveSpec == Init /\ [][LiveNext]_vars /\ WF_vars(LiveNext)

(* ------------------------------ the HTTP API ---------------------------- *)
\* the connections that open the websocket endpoint and register in the Hub
ApiConns == {"c1", "c2"}

\* the ids uuid.New() gives to the meetings created
CreatedIDs == {"m1"}
\* the meeting the session of SessionSpec is about
SessionIDs == {"m1"}

ApiServed == ops < MaxApiOps /\ ops' = ops + 1

\* GET /ws with any cookie: websocketHandler
WsRequest(c, origin, cookie) ==
    /\ WsUpgrade(c, origin)
    /\ httpReq' = Request(cookie, Nil, BadBody)
    /\ UNCHANGED <<participants, dbMeetings, now, inserted, httpResp>>

\* Joining: the router serves create-meeting and join requests with any
\* cookie, path and body, and connections open the websocket endpoint.
ApiNext ==
    \/ \E k \in Cookies : \E b \in MeetingBodies : \E m \in CreatedIDs :
          ApiServed /\ createMeetingHandler(k, b, m) /\ UNCHANGED <<joinVars, wsVars, otherVars>>
    \/ \E k \in Cookies : \E m \in MeetingIDs : \E b \in JoinBodies :
          ApiServed /\ notifyJoinHandler(k, m, b) /\ UNCHANGED <<joinVars, wsVars, otherVars>>
    \/ \E c \in ApiConns : \E o \in Origins : \E k \in Cookies :
          ApiServed /\ WsRequest(c, o, k) /\ UNCHANGED <<joinVars, otherVars>>

ApiSpec == Init /\ [][ApiNext]_vars

\* The life of the Participant documents next to the live session: users
\* join and update their flags, time passes and the database expires
\* documents, while connections are registered into the Hub once each.
SessionNext ==
    \/ \E k \in Cookies : \E m \in SessionIDs : \E b \in JoinBodies :
          ApiServed /\ notifyJoinHandler(k, m, b) /\ UNCHANGED <<joinVars, wsVars, otherVars>>
    \/ \E k \in Cookies : \E m \in SessionIDs : \E b \in UpdateBodies :
          ApiServed /\ updateParticipantHandler(k, m, b) /\ UNCHANGED <<joinVars, wsVars, otherVars>>
    \/ \E p \in participants : TTLExpire(p) /\ UNCHANGED <<ops, joinVars, wsVars, otherVars>>
    \/ Tick /\ UNCHANGED <<ops, joinVars, wsVars, otherVars>>
    \/ \E c \in ApiConns : c \notin clients /\ ~closed[c] /\ Register(c)
                                /\ UNCHANGED <<ops, joinVars, wsVars, apiVars, otherVars>>

SessionSpec == Init /\ [][SessionNext]_vars

(* ----------------------- the three request channels --------------------- *)
\* the connections whose tasks submit requests
OrderConns == {"c1", "c2"}
\* hub.register <- c, hub.unregister <- c, hub.broadcast <- b
Submissions ==
    {[ch |-> ch, arg |-> c] : ch \in {"register", "unregister"}, c \in OrderConns}
        \cup {[ch |-> "broadcast", arg |-> b] : b \in RawMsgs}

\* A task blocks in a send on one of the unbuffered channels of newHub.
Submit(req) ==
    /\ Len(pending) < MaxPending
    /\ pending' = Append(pending, req)
    /\ lastOp' = Op("submit", Nil, TRUE)
    /\ UNCHANGED <<hubVars, joining, joinOrder>>

\* The select of Hub.run: of the channels on which a sender waits one is
\* chosen at random, and the sender that waits longest on it is received
\* from; the chosen case then runs to its end.
Receive(i) ==
    /\ i \in 1..Len(pending)
    /\ \A j \in 1..(i - 1) : pending[j].ch # pending[i].ch
    /\ pending' = [k \in 1..(Len(pending) - 1) |-> IF k < i THEN pending[k] ELSE pending[k + 1]]
    /\ IF pending[i].ch = "register" THEN Register(pending[i].arg)
       ELSE IF pending[i].ch = "unregister" THEN Unregister(pending[i].arg)
       ELSE Broadcast(pending[i].arg)
    /\ UNCHANGED <<joining, joinOrder>>

OrderNext ==
    \/ \E req \in Submissions : Submit(req) /\ UNCHANGED <<ops, wsVars, apiVars, otherVars>>
    \/ \E i \in 1..MaxPending : Served /\ Receive(i) /\ UNCHANGED <<wsVars, apiVars, otherVars>>

OrderSpec == Init /\ [][OrderNext]_vars

(* ----------------------- the tasks of a connection ---------------------- *)
\* The source starts the Hub and declares Client, but holds no code that
\* constructs a Client, sends on the Hub's channels or reads Client.send.
\* The two tasks of a connection are taken from the specification: the
\* reader submits the join, then the connection's messages, then the
\* disconnect, one after the other; the writer drains the outbound queue.
TaskConns == {"c1", "c2"}

\* the payloads of a connection, in the order its reader submits them
Payloads(c) ==
    SubSeq(IF c = "c1" THEN <<"c1.1", "c1.2", "c1.3", "c1.4">>
                       ELSE <<"c2.1", "c2.2", "c2.3", "c2.4">>, 1, MaxSends)

\* the requests of the reader task of c, in program order:
\* hub.register <- c, hub.broadcast <- payload ..., hub.unregister <- c
Script(c) ==
    <<[ch |-> "register", arg |-> c, from |-> c]>>
        \o [n \in 1..MaxSends |-> [ch |-> "broadcast", arg |-> Payloads(c)[n], from |-> c]]
        \o <<[ch |-> "unregister", arg |-> c, from |-> c]>>

\* a faulty constructor: the channels are made with a buffer, so that a
\* send returns before the Hub has received the value
SendReturnedAtOnce(p, c) == TRUE

\* register: make(chan *Client), broadcast: make(chan []byte): the channels
\* are unbuffered, a send returns when the Hub has received the value; p
\* holds the values sent and not yet received
SendReturned(p, c) == \A i \in DOMAIN p : p[i].from # c

\* The reader task of c submits its next request once its last send returned.
ReaderSubmit(c) ==
    /\ reader[c] < Len(Script(c))
    /\ SendReturned(pending, c)
    /\ reader' = [reader EXCEPT ![c] = @ + 1]
    /\ pending' = Append(pending, Script(c)[reader[c] + 1])
    /\ lastOp' = Op("submit", c, TRUE)
    /\ UNCHANGED <<hubVars, joining, joinOrder, written>>

\* The writer task of c takes the next message off Client.send and writes it
\* to the connection.
WriterWrite(c) ==
    /\ WriterDequeue(c)
    /\ written' = [written EXCEPT ![c] = Append(@, Head(send[c]))]
    /\ UNCHANGED <<joinVars, reader>>

TaskNext ==
    \/ \E c \in TaskConns : ReaderSubmit(c)
                               /\ UNCHANGED <<ops, wsVars, apiVars, rateVars, clientVars>>
    \/ \E i \in DOMAIN pending : Receive(i)
                               /\ UNCHANGED <<ops, wsVars, apiVars, rateVars, clientVars, taskVars>>
    \/ \E c \in TaskConns : WriterWrite(c)
                               /\ UNCHANGED <<ops, wsVars, apiVars, rateVars, clientVars>>

TaskSpec == Init /\ [][TaskNext]_vars

(* ----------------------- the rate limiter under load ------------------- *)
RateRest == <<hubVars, lastOp, ops, joinVars, wsVars, participants, dbMeetings,
              inserted, httpReq, httpResp, ms, rq, auth, localStorage, logouts,
              taskVars>>

\* Requests of two clients are handled by two tasks at a time while the
\* clock advances; the window of ip1 holds RateServedBefore requests.
RateNext ==
    \/ \E g \in RateTasks : \E ip \in RateIPs : RateStart(g, ip) /\ UNCHANGED <<RateRest, now>>
    \/ \E g \in RateTasks : RateExpired(g) /\ UNCHANGED <<RateRest, now>>
    \/ \E g \in RateTasks : RateMake(g) /\ UNCHANGED <<RateRest, now>>
    \/ \E g \in RateTasks : RateSetLast(g) /\ UNCHANGED <<RateRest, now>>
    \/ \E g \in RateTasks : RateLoad(g) /\ UNCHANGED <<RateRest, now>>
    \/ \E g \in RateTasks : RateStore(g) /\ UNCHANGED <<RateRest, now>>
    \/ \E g \in RateTasks : RateTest(g) /\ UNCHANGED <<RateRest, now>>
    \/ RateCrash /\ UNCHANGED <<RateRest, now>>
    \/ Tick /\ UNCHANGED <<ops, joinVars, wsVars, rateVars, clientVars, taskVars>>

\* the state after RateServedBefore requests of one client were served one
\* after the other within the current minute
RateLoaded ==
    /\ InitCore /\ RateInit(RateServedBefore)
    /\ ms = MeetingService /\ rq = RequestQueue /\ auth = AuthState
    /\ localStorage = null

RateSpec == RateLoaded /\ [][RateNext]_vars

(* the MeetingService on its own *)
MsRest == <<hubVars, ops, joinVars, wsVars, apiVars, rateVars, taskVars, logouts>>

\* api.login is answered here as loginHandler answers a right password; the
\* other answers are those of ApiAuthNext
MsNext ==
    \/ ApiLogin("ok", LoginAnswer, FALSE) /\ UNCHANGED <<MsRest, ms, rq>>
    \/ AuthLogin(MsUser, MsToken) /\ UNCHANGED <<MsRest, ms, rq, localStorage>>
    \/ AuthLogout /\ UNCHANGED <<MsRest, ms, rq, localStorage>>
    \/ MsInitialize /\ UNCHANGED <<MsRest, rq, auth, localStorage>>
    \/ \E i \in PeerObjects : MsPeerOpen(i) /\ UNCHANGED <<MsRest, rq, auth, localStorage>>
    \/ \E i \in PeerObjects : MsPeerDisconnected(i) /\ UNCHANGED <<MsRest, rq, auth, localStorage>>
    \/ \E i \in PeerObjects, type \in PeerErrorTypes :
           MsPeerError(i, type) /\ UNCHANGED <<MsRest, rq, auth, localStorage>>
    \/ \E i \in PeerObjects : MsPeerClose(i) /\ UNCHANGED <<MsRest, rq, auth, localStorage>>
    \/ \E i \in PeerObjects : MsConnectionTimeout(i) /\ UNCHANGED <<MsRest, rq, auth, localStorage>>
    \/ \E i \in PeerObjects, ok \in BOOLEAN, denied \in BOOLEAN :
           MsLocalStream(i, ok, denied) /\ UNCHANGED MsRest
    \/ \E i \in PeerObjects, answer \in JoinAnswers : MsServerJoin(i, answer) /\ UNCHANGED MsRest
    \/ \E id \in ms.timers : MsTimerFires(id) /\ UNCHANGED <<MsRest, rq, auth, localStorage>>
    \/ MsCleanup /\ UNCHANGED <<MsRest, rq, auth, localStorage>>

MsSpec == Init /\ [][MsNext]_vars

(* calls and screen sharing in a meeting that was joined *)
\* the state after login, initializeMeeting, the 'open' of peerA and
\* getUserMedia, the join request having resolved for want of an 'auth-token'
MediaLoaded ==
    /\ InitCore /\ RateInit(0)
    /\ auth = login(AuthState, MsUser, MsToken)
    /\ localStorage = null
    /\ rq = settle(add(RequestQueue), 1, TRUE)
    /\ ms = FinishInitialize([MeetingService EXCEPT !.peer = "peerA",
                                                    !.peers["peerA"] = "open",
                                                    !.localStream = TRUE,
                                                    !.localVideo = "camera"], "peerA")

\* a run of MediaSpec takes at most MaxMediaOps steps, counted in ops
MediaStep ==
    /\ ops < MaxMediaOps
    /\ ops' = ops + 1
    /\ UNCHANGED <<hubVars, joinVars, wsVars, apiVars, rateVars, taskVars, rq, auth,
                   localStorage, logouts>>

MediaNext ==
    \/ \E r \in RemotePeers : MsCallPeer(r) /\ MediaStep
    \/ \E p \in PeerObjects, r \in RemotePeers : MsIncomingCall(p, r) /\ MediaStep
    \/ \E p \in PeerObjects, r \in RemotePeers : MsIncomingConnection(p, r) /\ MediaStep
    \/ \E c \in CallObjects : MsCallStream(c) /\ MediaStep
    \/ \E c \in CallObjects : MsCallClose(c) /\ MediaStep
    \/ \E c \in CallObjects : MsCallError(c) /\ MediaStep
    \/ \E c \in ConnObjects : MsConnOpen(c) /\ MediaStep
    \/ \E c \in ConnObjects, type \in DataTypes : MsConnData(c, type) /\ MediaStep
    \/ \E c \in ConnObjects : MsConnClose(c) /\ MediaStep
    \/ \E c \in ConnObjects : MsConnError(c) /\ MediaStep
    \/ \E s \in ShareCalls : MsToggleScreenShare(s) /\ MediaStep
    \/ \E k \in ScreenStreams : MsScreenTrackEnded(k) /\ MediaStep
    \/ \E s \in ShareCalls, ok \in BOOLEAN, found \in BOOLEAN :
           MsDisplayMedia(s, ok, found) /\ MediaStep
    \/ \E s \in ShareCalls, ok \in BOOLEAN, found \in BOOLEAN :
           MsCameraMedia(s, ok, found) /\ MediaStep
    \/ \E s \in ShareCalls, ok \in BOOLEAN, found \in BOOLEAN :
           MsReplaceTrack(s, ok, found) /\ MediaStep
    \/ MsToggleAudio /\ MediaStep
    \/ StoreToggleScreenSharing /\ MediaStep
    \/ \E i \in PeerObjects : MsPeerDisconnected(i) /\ MediaStep
    \/ \E i \in PeerObjects : MsPeerClose(i) /\ MediaStep
    \/ MsCleanup /\ MediaStep

MediaSpec == MediaLoaded /\ [][MediaNext]_vars

(* login and logout of the client *)
ApiAuthRest == <<hubVars, ops, joinVars, wsVars, apiVars, rateVars, taskVars, ms>>

ApiAuthNext ==
    \/ \E status \in JoinAnswers, json \in LoginAnswers, denied \in BOOLEAN :
           ApiLogin(status, json, denied) /\ UNCHANGED <<ApiAuthRest, rq, logouts>>
    \/ AuthLogin(MsUser, MsToken) /\ UNCHANGED <<ApiAuthRest, rq, localStorage, logouts>>
    \/ \E denied \in BOOLEAN : ApiLogoutCall(denied) /\ UNCHANGED ApiAuthRest
    \/ \E id \in 1..MaxApiCalls, answer \in JoinAnswers, denied \in BOOLEAN :
           ApiLogoutAnswered(id, answer, denied) /\ UNCHANGED ApiAuthRest
    \/ \E denied \in BOOLEAN : ApiFetchWithAuth(denied) /\ UNCHANGED ApiAuthRest
    \/ ApiFetchPublic /\ UNCHANGED ApiAuthRest
    \/ \E id \in 1..MaxApiCalls, answer \in JoinAnswers, denied \in BOOLEAN :
           ApiFetchAnswered(id, answer, denied) /\ UNCHANGED ApiAuthRest

ApiAuthSpec == Init /\ [][ApiAuthNext]_vars

(* the RequestQueue on its own *)
RqRest == <<hubVars, ops, joinVars, wsVars, apiVars, rateVars, taskVars, ms, auth,
            localStorage, logouts>>

RqNext ==
    \/ RqAdd /\ UNCHANGED RqRest
    \/ \E id \in 1..MaxAdds, ok \in BOOLEAN : RqSettle(id, ok) /\ UNCHANGED RqRest

RqSpec == Init /\ [][RqNext]_vars

\* every request that is running settles in the end
RqLiveSpec ==
    RqSpec /\ \A id \in 1..MaxAdds : WF_vars(\E ok \in BOOLEAN : RqSettle(id, ok) /\ UNCHANGED RqRest)

(* the auth store on its own *)
AuthRest == <<hubVars, ops, joinVars, wsVars, apiVars, rateVars, taskVars, ms, rq,
              localStorage, logouts>>

AuthNext ==
    \/ \E user \in AuthUsers, token \in AuthTokens : AuthLogin(user, token) /\ UNCHANGED AuthRest
    \/ AuthLogout /\ UNCHANGED AuthRest
    \/ AuthCheckAuth /\ UNCHANGED AuthRest
    \/ \E error \in {"Login failed", "Session expired"} : AuthSetError(error) /\ UNCHANGED AuthRest
    \/ AuthClearError /\ UNCHANGED AuthRest
    \/ AuthReload /\ UNCHANGED AuthRest

AuthSpec == Init /\ [][AuthNext]_vars

(* ------------------------------- claims --------------------------------- *)
\* C1: after every Hub mutation a Room entry exists in the meetings map only
\* if it has at least one member (a Room with members always has an entry,
\* the map being the only place members are kept): no reachable state holds
\* a Room with zero members.
C1_RoomExistsIffNonEmpty ==
    \A m \in MeetingIDs : (m \in DOMAIN meetings) <=> (RoomOf(HubState, m) # {})

\* C2: unregistering a connection that an earlier unregister already removed
\* changes no Hub state, closes nothing and enqueues nothing; over both calls
\* no member has been sent more than one user-left event of that connection,
\* and when the second call directly follows the first, the members that
\* remained each hold exactly one (none exists if the room was left empty).
C2_SecondUnregister(c) ==
    /\ lastOp' = Op("unregister", c, FALSE)
    /\ c \in unregistered

C2_UnregisterTwiceIdempotent ==
    [][\A c \in Conns : C2_SecondUnregister(c) =>
          /\ UNCHANGED <<clients, meetings, send, closed, panicked, leftCount>>
          /\ \A d \in Conns : leftCount'[PeerOf(c)][d] <= 1
          /\ (lastOp = Op("unregister", c, TRUE) /\ ~panicked) =>
                \A d \in Conns : leftCount'[PeerOf(c)][d] =
                    IF d \in RoomOf(HubState, MeetingOf(c)) THEN 1 ELSE 0]_vars

\* C2 witness: the second of two consecutive unregisters of c2 has been
\* processed, and c1, which remained, was sent user-left of c2.
C2_Witness ==
    /\ lastOp = Op("unregister", "c2", FALSE)
    /\ "c2" \in unregistered
    /\ "c1" \in clients
    /\ leftCount[PeerOf("c2")]["c1"] = 1
    /\ ~panicked

\* the non-blocking send on d's queue would succeed
HasSpace(d) == ~closed[d] /\ Len(send[d]) < QueueCap

\* C3: a room broadcast that excludes client a (the broadcast of register(a)),
\* made when the queue of every member of a's room is open and has free
\* space, enqueues the message on exactly the other members of the room:
\* nothing on a, nothing on a connection outside the room.
C3_BroadcastExcludes ==
    [][\A a \in Conns :
          LET room == RoomOf(HubState, MeetingOf(a)) \cup {a}
          IN (lastOp'.op = "register" /\ lastOp'.c = a /\ \A d \in room : HasSpace(d)) =>
                \A d \in Conns :
                    send'[d] = IF d \in room \ {a} THEN Append(send[d], Joined(a))
                                                    ELSE send[d]]_vars

\* C3 witness: c1 registered into the room {c1, c2, c3} while c4 sits in the
\* other room; c2 and c3 hold the event as their newest message.
C3_Witness ==
    /\ lastOp = Op("register", "c1", TRUE)
    /\ clients = Conns
    /\ meetings["m1"] = {"c1", "c2", "c3"}
    /\ \A d \in {"c2", "c3"} : send[d] # <<>> /\ send[d][Len(send[d])] = Joined("c1")
    /\ send["c1"] = <<>>
    /\ send["c4"] = <<>>

\* C4: processing register(c) adds c to the registry and to the Room of
\* c.meetingID (creating the Room if absent), enqueues one user-joined event
\* of c on every other member of that Room, and nothing on c itself.
C4_RegisterNotifiesOthers ==
    [][\A c \in Conns : (lastOp'.op = "register" /\ lastOp'.c = c) =>
          /\ c \in clients'
          /\ MeetingOf(c) \in DOMAIN meetings'
          /\ c \in meetings'[MeetingOf(c)]
          /\ \A d \in meetings'[MeetingOf(c)] \ {c} : send'[d] = Append(send[d], Joined(c))
          /\ send'[c] = send[c]]_vars

\* C5: processing unregister(c) for a registered c removes c from its Room
\* and from the registry and closes c's queue; when other members remain each
\* of them is sent one user-left event of c (a member whose queue has space
\* holds it afterwards), and when none remain the Room is deleted and no
\* event is sent.
C5_UnregisterRemovesAndNotifies ==
    [][\A c \in Conns : (lastOp' = Op("unregister", c, TRUE)) =>
          LET m == MeetingOf(c)
              others == RoomOf(HubState, m) \ {c}
          IN /\ c \notin clients'
             /\ c \notin RoomOf([meetings |-> meetings'], m)
             /\ ~closed[c] /\ closed'[c]
             /\ others # {} =>
                   \A d \in others : HasSpace(d) => send'[d] = Append(send[d], Left(c))
             /\ others = {} => (m \notin DOMAIN meetings' /\ send' = send)]_vars

\* the message of the room broadcast made by the last request, if it made one
C6_RoomBroadcast(c, msg, excl) ==
    \/ lastOp'.op = "register" /\ lastOp'.c = c /\ msg = Joined(c) /\ excl = c
    \/ /\ lastOp' = Op("unregister", c, TRUE) /\ msg = Left(c) /\ excl = Nil
       /\ RoomOf(HubState, MeetingOf(c)) \ {c} # {}

\* C6: in a room broadcast a member whose queue is full is evicted by that
\* broadcast (out of the Room and the registry, queue closed), and every other
\* non-excluded member whose queue has space holds the message afterwards.
C6_FullMemberEvictedOthersServed ==
    [][\A c \in Conns : \A msg \in {Joined(c), Left(c)} : \A excl \in {c, Nil} :
          C6_RoomBroadcast(c, msg, excl) =>
             \A d \in (RoomOf(HubState, MeetingOf(c)) \ {c}) :
                /\ (~closed[d] /\ Len(send[d]) >= QueueCap) =>
                      /\ d \notin clients'
                      /\ d \notin RoomOf([meetings |-> meetings'], MeetingOf(c))
                      /\ closed'[d]
                /\ HasSpace(d) => send'[d] = Append(send[d], msg)]_vars

\* C7: once a broadcast has evicted connection c for a full queue, every
\* member d that remains in c's Room is eventually sent a user-left event of
\* c (unless d leaves the registry first).
C7_EvictedLeadsToLeft ==
    \A c \in LiveConns : \A d \in LiveConns \ {c} :
        (c \in evicted /\ d \in clients /\ d \in RoomOf(HubState, MeetingOf(c)))
            ~> (leftCount[PeerOf(c)][d] >= 1 \/ d \notin clients)

\* the joins of meeting m1, in the order the Hub processed them
C8_InM1(c) == MeetingOf(c) = "m1"
C8_Order == SelectSeq(joinOrder, C8_InM1)

\* C8: when N connections concurrently submit register for meeting m1 and
\* the queues hold N-1 messages, then in every interleaving, once the N joins
\* are processed, the Room has exactly those N members and the connection
\* registered first holds exactly N-1 user-joined events, one per later
\* joiner, in the order the joins were processed.
C8_ConcurrentJoins ==
    LET N == Len(C8_Order)
    IN (N >= 1 /\ N - 1 <= QueueCap) =>
          /\ "m1" \in DOMAIN meetings
          /\ meetings["m1"] = {C8_Order[i] : i \in 1..N}
          /\ Cardinality(meetings["m1"]) = N
          /\ meetings["m1"] \subseteq clients
          /\ send[C8_Order[1]] = [i \in 1..(N - 1) |-> Joined(C8_Order[i + 1])]

\* C8 witness: three connections joined m1 concurrently, c2 first; all
\* submitted joins are processed.
C8_Witness ==
    /\ joining = {}
    /\ Len(C8_Order) = 3
    /\ C8_Order[1] = "c2"
    /\ Len(send["c2"]) = 2

\* C9: once a connection has been unregistered or evicted it is never again
\* a member of the registry or of a Room, and nothing is enqueued on its
\* queue, whatever request is submitted.
C9_Dead(c) == c \in unregistered \/ c \in evicted

C9_UnregisteredIsTerminal ==
    [][\A c \in Conns : C9_Dead(c) =>
          /\ c \notin clients'
          /\ \A m \in DOMAIN meetings' : c \notin meetings'[m]
          /\ Len(send'[c]) <= Len(send[c])]_vars

\* the connection of the sender's Room that owns peer id p, if there is one
C10_Owner(s, p) == {d \in RoomOf(HubState, MeetingOf(s)) : PeerOf(d) = p}

\* message msg was put on the way out to connection d by the step
C10_DeliveredTo(d, msg) ==
    \/ wsOut'[d] = Append(wsOut[d], msg)
    \/ Len(send'[d]) > Len(send[d]) /\ send'[d][Len(send'[d])] = msg

\* C10: an offer, answer or ice-candidate that connection s sends with
\* target peer id p goes out unchanged to the connection that owns p in the
\* sender's Room, and to no other connection.
C10_SignalRelayedToTarget ==
    [][\A s \in WsConns : \A msg \in WsFrames(s) :
          (lastOp' = Op("ws-echo", s, TRUE) /\ wsOut'[s] = Append(wsOut[s], msg)
             /\ s \in clients /\ C10_Owner(s, msg.toPeerId) # {}) =>
                \A d \in Conns : C10_DeliveredTo(d, msg) <=> d \in C10_Owner(s, msg.toPeerId)]_vars

\* C11: a signaling frame that a registered connection s sends to a target
\* peer id owned by no connection of its Room is dropped: the step that handles it puts the
\* frame on the way out to no connection, and it unregisters and closes no
\* connection.
C11_AbsentTargetDropped ==
    [][\A s \in WsConns : (lastOp' = Op("ws-echo", s, TRUE) /\ s \in clients) =>
          /\ \A msg \in WsFrames(s) : (C10_Owner(s, msg.toPeerId) = {}) =>
                \A d \in Conns : ~C10_DeliveredTo(d, msg)
          /\ clients' = clients
          /\ closed' = closed]_vars

\* the user and the meeting of the join request the step handled
C12_JoinBy(u, m) ==
    /\ lastOp'.op = "notify-join"
    /\ httpReq'.body.json
    /\ httpReq'.id = m
    /\ getUserIDFromToken(httpReq'.cookie) = u

\* C12: a join to a stored private meeting by a user who is not its creator
\* is answered with the access-denied status, stores no Participant document
\* of that user and registers no connection; the creator's first join to it
\* is answered with success and stores the creator's document.
C12_PrivateJoinCreatorOnly ==
    [][\A m \in DOMAIN dbMeetings : \A u \in Users :
          (C12_JoinBy(u, m) /\ dbMeetings[m].isPrivate) =>
              IF u # dbMeetings[m].createdBy
              THEN /\ httpResp'.code = StatusForbidden
                   /\ FindParticipants(participants', m, u) = {}
                   /\ clients' = clients
              ELSE FindParticipants(participants, m, u) = {} =>
                      /\ httpResp'.code = StatusOK
                      /\ FindParticipants(participants', m, u) # {}]_vars

\* the Participant documents of meeting m
C13_Joined(coll, m) == {p \in coll : p.meetingId = m}

\* C13: a join to a stored meeting never takes the number of its Participant
\* documents above maxParticipants: a join made when the meeting is at
\* capacity is not answered with success, and it stores no document and
\* registers no connection.
C13_CapacityEnforced ==
    [][\A m \in DOMAIN dbMeetings : \A u \in Users :
          C12_JoinBy(u, m) =>
              /\ Cardinality(C13_Joined(participants', m)) <= dbMeetings[m].maxParticipants
              /\ (Cardinality(C13_Joined(participants, m)) >= dbMeetings[m].maxParticipants) =>
                    /\ httpResp'.code # StatusOK
                    /\ participants' = participants
                    /\ clients' = clients]_vars

\* C14: a join-notify request or a request to open the meeting connection
\* whose cookie is missing or yields no user id stores no Participant
\* document, and its connection is neither served as a websocket connection
\* nor registered in the Hub.
C14_NoTokenNoJoin ==
    [][(lastOp'.op \in {"notify-join", "ws-upgrade"}
          /\ getUserIDFromToken(httpReq'.cookie) = "") =>
              /\ participants' = participants
              /\ lastOp'.c \notin wsOpen'
              /\ clients' = clients]_vars

\* the user, the meeting and the body of the update request the step handled
C18_UpdateBy(u, m, b) ==
    /\ lastOp'.op = "update-participant"
    /\ httpReq' = Request(httpReq'.cookie, m, b)
    /\ getUserIDFromToken(httpReq'.cookie) = u

\* C18: an update-participant request of a user who has a Participant
\* document in the meeting stores the flag values of the request and the
\* current time as last-active in that document, and every connection of
\* another user in the meeting's Room is sent the update.
C18_UpdateStoredAndMirrored ==
    [][\A m \in SessionIDs : \A u \in Users : \A b \in UpdateBodies \ {BadBody} :
          (C18_UpdateBy(u, m, b) /\ FindParticipants(participants, m, u) # {}) =>
              /\ \A p \in FindParticipants(participants', m, u) :
                    /\ \A f \in DOMAIN b.fields : p[f] = b.fields[f]
                    /\ p.lastActive = now
              /\ FindParticipants(participants', m, u) # {}
              /\ \A d \in RoomOf(HubState, m) :
                    UserOf(d) # u => Len(send'[d]) > Len(send[d])]_vars

\* C19: when the database removes a Participant document for inactivity, the
\* document had no activity for the retention window, and every connection
\* of another user in the Room of its meeting is sent a user-left event.
C19_ExpiryBroadcastsLeft ==
    [][\A p \in participants :
          (lastOp'.op = "ttl-expire" /\ p \notin participants') =>
              /\ now - p.lastActive >= ExpireAfterSeconds
              /\ \A d \in RoomOf(HubState, p.meetingId) :
                    UserOf(d) # p.userId =>
                       /\ Len(send'[d]) > Len(send[d])
                       /\ send'[d][Len(send'[d])].type = "user-left"]_vars

\* the event a request of the Hub puts on the queues it serves
C15_EventOf(req) ==
    IF req.ch = "register" THEN Joined(req.arg)
    ELSE IF req.ch = "unregister" THEN Left(req.arg) ELSE Raw(req.arg)

\* the events the requests of the script of c cause, in program order
C15_Events == [c \in TaskConns |-> [k \in DOMAIN Script(c) |-> C15_EventOf(Script(c)[k])]]

\* the position in the script of c of the request an event stems from, 0
\* for an event of another connection
C15_Rank(c, e) ==
    LET ks == {k \in DOMAIN C15_Events[c] : C15_Events[c][k] = e}
    IN IF ks = {} THEN 0 ELSE CHOOSE k \in ks : TRUE

\* the positions, in the script of c, of the events of c among the events es
C15_Ranks(c, es) == SelectSeq([i \in DOMAIN es |-> C15_Rank(c, es[i])], LAMBDA k : k > 0)

\* everything connection d was sent so far: what its writer took off the
\* queue, in the order it took it, and then what the queue holds
C15_Sent(d) == written[d] \o send[d]

\* the request the Hub takes in a step that shortens pending by one
C15_Taken ==
    pending[CHOOSE i \in DOMAIN pending :
               pending' = [k \in 1..(Len(pending) - 1) |->
                              IF k < i THEN pending[k] ELSE pending[k + 1]]]

\* C15: the messages of one sending connection lie on every destination's
\* outbound queue, and leave it, in the order the sender submitted them:
\* of two events of one sender that a destination was sent, the one sent
\* earlier stems from the earlier request of that sender.  And the events on
\* one queue are dequeued in the order the Hub processed them: a request of
\* the Hub adds its event behind everything the destination was sent before
\* (or adds nothing), and no other step changes what a destination was sent,
\* so a writer always takes the event processed earliest.
C15_SenderOrder ==
    /\ [](\A c \in TaskConns, d \in Conns :
             LET ranks == C15_Ranks(c, C15_Sent(d))
             IN \A i \in 1..(Len(ranks) - 1) : ranks[i] < ranks[i + 1])
    /\ [][\A d \in Conns :
             IF Len(pending') < Len(pending)
             THEN \/ C15_Sent(d)' = C15_Sent(d)
                  \/ C15_Sent(d)' = Append(C15_Sent(d), C15_EventOf(C15_Taken))
             ELSE C15_Sent(d)' = C15_Sent(d)]_vars

\* C15 witness: c2 was sent the last two payloads of c1 and then the
\* user-left of c1, in this order; its writer has taken the first of them.
C15_Witness ==
    /\ written["c2"] = <<Raw(Payloads("c1")[MaxSends - 1])>>
    /\ send["c2"] = <<Raw(Payloads("c1")[MaxSends]), Left("c1")>>
    /\ lastOp = Op("unregister", "c1", TRUE)

\* C17: one request of the Hub enqueues its message at most once on a
\* connection, behind what the queue holds, and a connection that a broadcast
\* could not serve (its queue was full, so it was evicted and its queue
\* closed) is never sent anything afterwards: nothing is retried.
C17_AtMostOnce ==
    [][\A d \in Conns :
          /\ Len(send'[d]) <= Len(send[d]) + 1
          /\ (d \in evicted \/ closed[d]) => Len(send'[d]) <= Len(send[d])]_vars

\* C17 witness: a broadcast on the global channel found c2's queue full and
\* evicted it while c1 took the message once; a later broadcast served c1
\* again and put nothing on c2's queue.
C17_Witness ==
    /\ lastOp = Op("broadcast", Nil, TRUE)
    /\ "c2" \in evicted
    /\ closed["c2"]
    /\ Len(send["c2"]) = QueueCap
    /\ "c1" \in clients
    /\ send["c1"] = <<Raw("b1"), Raw("b1")>>
    /\ send["c2"][QueueCap] # Raw("b1")
    /\ ~panicked

\* C20: the registry and the Rooms agree: a connection is in hub.clients
\* exactly if it is a member of the Room of its meeting id, and it is a
\* member of no other Room.
C20_RegistryMatchesRooms ==
    \A c \in Conns :
        /\ c \in clients <=> c \in RoomOf(HubState, MeetingOf(c))
        /\ \A m \in DOMAIN meetings : c \in meetings[m] => m = MeetingOf(c)

\* C16: the Hub worker executes the submitted requests one at a time and in
\* the order they were submitted: the request a step of the worker takes is
\* the oldest of the requests that wait.
C16_SubmissionOrder ==
    [][Len(pending') < Len(pending) => pending' = Tail(pending)]_vars

\* C21: the Hub worker never sends on a queue that is closed and never closes
\* a queue a second time: no sequence of register, unregister and broadcast
\* requests makes it panic.
C21_NoSendOrCloseOnClosed == ~panicked

\* C22: the collection never holds two Participant documents of one
\* (meetingId, userId): a join-notify of a user who has a document of the
\* meeting is answered with an error and leaves the collection unchanged,
\* while a join of a user who has none (never had, or it expired) stores one.
C22_OneRecordPerUser ==
    [][/\ \A p \in participants' : \A q \in participants' :
             (p.meetingId = q.meetingId /\ p.userId = q.userId) => p = q
       /\ \A m \in SessionIDs : \A u \in Users :
             C12_JoinBy(u, m) =>
                IF FindParticipants(participants, m, u) # {}
                THEN /\ httpResp'.code = StatusInternalServerError
                     /\ participants' = participants
                ELSE /\ httpResp'.code = StatusOK
                     /\ Cardinality(FindParticipants(participants', m, u)) = 1]_vars

\* C22 witness: u1, whose document of m1 is stored, asked to join m1 again
\* and was answered with the error.
C22_Witness ==
    /\ lastOp.op = "notify-join"
    /\ httpReq.body.json
    /\ getUserIDFromToken(httpReq.cookie) = "u1"
    /\ httpResp = Response(StatusInternalServerError, "Failed to join meeting")
    /\ Cardinality(FindParticipants(participants, "m1", "u1")) = 1
    /\ inserted = 1

\* the three flags of an update request
C23_Flags == {"isAudioEnabled", "isVideoEnabled", "isScreenSharing"}

\* C23: an update-participant request changes only the flags it supplies:
\* in the sender's document a flag the body lacks keeps its stored value, and
\* every document of another user or meeting is left as it is.
C23_OnlySuppliedFlagsChange ==
    [][\A m \in SessionIDs : \A u \in Users : \A b \in UpdateBodies \ {BadBody} :
          C18_UpdateBy(u, m, b) =>
             \A p \in participants :
                \E q \in participants' :
                   /\ q.id = p.id
                   /\ IF p \in FindParticipants(participants, m, u)
                      THEN \A f \in C23_Flags \ DOMAIN b.fields : q[f] = p[f]
                      ELSE q = p]_vars

\* C24: between two resets of the counters the rate limiter passes on at
\* most requestsPerMinute requests of one client IP, also when the requests
\* are handled by concurrent tasks.
C24_RateLimitHolds == \A ip \in RateIPs : admitted[ip] <= RequestsPerMinute

\* the events a call emitted
C25_Emitted(m) == {m.emitted[i] : i \in DOMAIN m.emitted}

C25_Disconnections == {"peer-disconnected", "peer-error", "peer-close", "timer", "ms-cleanup"}

\* C25: reconnectAttempts never exceeds maxReconnectAttempts and only the
\* peer's 'open' event resets it to 0; at most one reconnect timer is pending
\* at a time; and a disconnection handled once the limit is reached emits the
\* connection-lost error and schedules no further timer.
C25_BoundedReconnect ==
    [][ /\ ms'.reconnectAttempts <= maxReconnectAttempts
        /\ Cardinality(ms'.timers) <= 1
        /\ ms'.reconnectAttempts < ms.reconnectAttempts =>
               lastOp'.op = "peer-open" /\ ms'.reconnectAttempts = 0
        /\ ms.reconnectAttempts = maxReconnectAttempts /\ lastOp'.op \in C25_Disconnections =>
               /\ ms'.nextTimer = ms.nextTimer
               /\ ms'.timers \subseteq ms.timers
               /\ "reconnecting" \notin C25_Emitted(ms')
               /\ lastOp'.op = "peer-disconnected" => ms'.emitted = <<"error">> ]_vars

\* a disconnection at the limit was answered with the error alone, after
\* the five timers of the attempts had been scheduled
C25_Witness ==
    /\ lastOp.op = "peer-disconnected"
    /\ ms.reconnectAttempts = maxReconnectAttempts
    /\ ms.emitted = <<"error">>
    /\ ms.nextTimer = maxReconnectAttempts + 1
    /\ ms.timers = {}

\* C26: once cleanup() has returned no reconnect timer is pending, and none
\* is scheduled and no 'reconnecting' or 'reconnected' event is emitted later.
C26_CleanupStopsReconnect ==
    [][ /\ ms'.cleanedUp => ms'.timers = {}
        /\ ms.cleanedUp => /\ ms'.nextTimer = ms.nextTimer
                           /\ "reconnecting" \notin C25_Emitted(ms')
                           /\ "reconnected" \notin C25_Emitted(ms') ]_vars

\* C27: the RequestQueue never has more than maxConcurrent requests in
\* flight: 0 <= active <= maxConcurrent, and active counts the running requests.
C27_AtMostMaxConcurrent ==
    /\ 0 <= rq.active
    /\ rq.active <= maxConcurrent
    /\ Cardinality(rq.running) = rq.active

\* five requests are running and a sixth one waits
C27_Witness ==
    /\ rq.active = maxConcurrent
    /\ Len(rq.queue) > 0
    /\ lastOp.op = "rq-add"

C28_Started(id) == \E i \in DOMAIN rq.startOrder : rq.startOrder[i] = id

\* C28: requests are started in the order they were added, a request that
\* fails frees its slot for the next one, and every request added is
\* started in the end when the running requests keep settling.
C28_StartedInOrder ==
    /\ [][ /\ \A i \in DOMAIN rq'.startOrder : rq'.startOrder[i] = i
           /\ lastOp'.op = "rq-settle" /\ ~lastOp'.ok /\ Len(rq.queue) > 0 =>
                  Len(rq'.startOrder) = Len(rq.startOrder) + 1 ]_vars
    /\ \A id \in 1..MaxAdds : (rq.added >= id) ~> C28_Started(id)

\* the sixth request waited for a slot and was started when a request failed
C28_Witness ==
    /\ lastOp.op = "rq-settle" /\ ~lastOp.ok
    /\ rq.failed # {}
    /\ Len(rq.startOrder) = maxConcurrent + 1
    /\ (maxConcurrent + 1) \in rq.running

\* the tokens of the form token_<id>, with an id of one character or more
C29_TokenForm(t) ==
    /\ t # null
    /\ Len(t.chars) > Len(TokenPrefix)
    /\ \A i \in DOMAIN TokenPrefix : t.chars[i] = TokenPrefix[i]

\* a user with all of id, name and email
C29_UserData(u) ==
    /\ u # null
    /\ \A f \in {"id", "name", "email"} : u[f].chars # <<>>

\* C29: in every state the store reaches by login, logout, checkAuth and its
\* other steps, isAuthenticated is true only when user and token are both
\* non-null; and a login in that state with missing user data or with a
\* token not of the form token_<id> leaves user, token and isAuthenticated
\* unchanged and sets error.
C29_AuthConsistent ==
    /\ auth.isAuthenticated => auth.user # null /\ auth.token # null
    /\ \A user \in AuthUsers, token \in AuthTokens :
           ~(C29_UserData(user) /\ C29_TokenForm(token)) =>
               LET after == login(auth, user, token)
               IN /\ after.user = auth.user
                  /\ after.token = auth.token
                  /\ after.isAuthenticated = auth.isAuthenticated
                  /\ after.error # Nil

\* an authenticated store stayed so through a login with a malformed token
C29_Witness ==
    /\ lastOp = Op("login", Nil, FALSE)
    /\ auth.error = "Invalid token format"
    /\ auth.isAuthenticated
    /\ C29_UserData(auth.user)
    /\ C29_TokenForm(auth.token)

TypeOK ==
    /\ clients \subseteq Conns
    /\ DOMAIN meetings \subseteq MeetingIDs
    /\ \A m \in DOMAIN meetings : meetings[m] \subseteq Conns
    /\ \A c \in Conns : Len(send[c]) <= QueueCap
====
